---- MODULE Spec2Model ----
(***************************************************************************)
(* State-machine model of the runtime input processor                      *)
(* (src/src/pointing/input_processor_runtime.c): the event pipeline        *)
(* (keybind dispatch, code remap, temp-layer tickle, rotation, invert,     *)
(* axis snap, scaling), the temp-layer controller with its two delayable   *)
(* work items, the key listeners, the public setters and the debounced     *)
(* settings save.  Time is k_uptime_get() in milliseconds.                 *)
(***************************************************************************)
EXTENDS Integers, Sequences, FiniteSets, TLC

VARIABLES
  cfg,        \* [Procs -> runtime_processor_config]   (immutable after init)
  data,       \* [Procs -> runtime_processor_data]
  work,       \* [Procs -> the three k_work_delayable handles of the instance]
  keymap,     \* set of keymap layers that are active (zmk_keymap_layer_active)
  now,        \* k_uptime_get()
  remainder,  \* [Procs -> *state->remainder of the listener that feeds the instance]
  storage,    \* [Procs -> the record settings_save_one last wrote, or NoRecord]
  last,       \* what the last operation was given and what it returned / called
  keybind_data, \* struct keybind_processor_data of the standalone keybind processor
  held_bindings, \* the bindings of the standalone processor that were pressed with
              \* success and not released since, oldest first
  asleep      \* the uptime until which keybind_processor_handle_event sleeps

vars ==
  <<cfg, data, work, keymap, now, remainder, storage, last, keybind_data, held_bindings, asleep>>

\* ------------------------------------------------------------------ constants

MAX_KEYBIND_BEHAVIORS == 8
INPUT_EV_REL == 2
INPUT_EV_KEY == 1
INPUT_REL_X == 0
INPUT_REL_Y == 1
INPUT_REL_HWHEEL == 6
INPUT_REL_WHEEL == 8
INPUT_REL_MISC == 9
AXIS_SNAP_MODE_NONE == 0
AXIS_SNAP_MODE_X == 1
AXIS_SNAP_MODE_Y == 2
DECAY_PERIOD_MS == 50
FIXED_POINT_SCALE == 1000
\* CONFIG_ZMK_SETTINGS_SAVE_DEBOUNCE, in ms
SAVE_DEBOUNCE == 100
\* a NULL device pointer, which is no instance of the registry
NULL == 0

\* the instances of the registry (runtime_processors[])
Procs == {1, 2}

\* ------------------------------------------------------------------ bounds

\* k_uptime_get() is followed up to MaxTicks steps of the clock
MaxTicks == 3
\* the clock steps the model takes, in ms
TimeSteps == {100}

\* ------------------------------------------------------------------ C arithmetic

Abs(v) == IF v < 0 THEN -v ELSE v

Min(a, b) == IF a <= b THEN a ELSE b

\* C integer division: truncation toward zero (TLA+ \div floors)
TruncDiv(a, b) ==
  IF (a >= 0) = (b > 0) THEN Abs(a) \div Abs(b) ELSE -(Abs(a) \div Abs(b))

\* narrowing conversion to int16_t
Int16(v) == ((v + 32768) % 65536) - 32768

\* narrowing conversion to uint8_t
Uint8(v) == v % 256

AtanTab ==
  << <<0, 45000>>,
     <<0, 26565, 45000>>,
     <<0, 18435, 33690, 45000>>,
     <<0, 14036, 26565, 36870, 45000>>,
     <<0, 11310, 21801, 30964, 38660, 45000>>,
     <<0, 9462, 18435, 26565, 33690, 39806, 45000>>,
     <<0, 8130, 15945, 23199, 29745, 35538, 40601, 45000>>,
     <<0, 7125, 14036, 20556, 26565, 32005, 36870, 41186, 45000>>,
     <<0, 6340, 12529, 18435, 23962, 29055, 33690, 37875, 41634, 45000>>,
     <<0, 5711, 11310, 16699, 21801, 26565, 30964, 34992, 38660, 41987, 45000>>,
     <<0, 5194, 10305, 15255, 19983, 24444, 28610, 32471, 36027, 39289, 42274, 45000>>,
     <<0, 4764, 9462, 14036, 18435, 22620, 26565, 30256, 33690, 36870, 39806, 42510, 45000>>,
     <<0, 4399, 8746, 12995, 17103, 21038, 24775, 28301, 31608, 34695, 37569, 40236, 42709, 45000>>,
     <<0, 4086, 8130, 12095, 15945, 19654, 23199, 26565, 29745, 32735, 35538, 38157, 40601, 42879, 45000>>,
     <<0, 3814, 7595, 11310, 14931, 18435, 21801, 25017, 28072, 30964, 33690, 36254, 38660, 40914, 43025, 45000>>,
     <<0, 3576, 7125, 10620, 14036, 17354, 20556, 23629, 26565, 29358, 32005, 34509, 36870, 39094, 41186, 43152, 45000>>,
     <<0, 3366, 6710, 10008, 13241, 16390, 19440, 22380, 25201, 27897, 30466, 32905, 35218, 37405, 39472, 41424, 43264, 45000>>,
     <<0, 3180, 6340, 9462, 12529, 15524, 18435, 21251, 23962, 26565, 29055, 31430, 33690, 35838, 37875, 39806, 41634, 43363, 45000>>,
     <<0, 3013, 6009, 8973, 11889, 14744, 17526, 20225, 22834, 25346, 27759, 30069, 32276, 34380, 36384, 38290, 40101, 41820, 43452, 45000>>,
     <<0, 2862, 5711, 8531, 11310, 14036, 16699, 19290, 21801, 24228, 26565, 28811, 30964, 33024, 34992, 36870, 38660, 40365, 41987, 43531, 45000>>,
     <<0, 2726, 5440, 8130, 10784, 13392, 15945, 18435, 20854, 23199, 25463, 27646, 29745, 31759, 33690, 35538, 37304, 38991, 40601, 42138, 43603, 45000>> >>

CosTab ==
  << 1000, 999, 999, 998, 997, 996, 994, 992, 990, 987, 984, 981, 978, 974, 970, 965, 961, 956,
     951, 945, 939, 933, 927, 920, 913, 906, 898, 891, 882, 874, 866, 857, 848, 838, 829, 819,
     809, 798, 788, 777, 766, 754, 743, 731, 719, 707, 694, 681, 669, 656, 642, 629, 615, 601,
     587, 573, 559, 544, 529, 515, 500, 484, 469, 453, 438, 422, 406, 390, 374, 358, 342, 325,
     309, 292, 275, 258, 241, 224, 207, 190, 173, 156, 139, 121, 104, 87, 69, 52, 34, 17, 0,
     -17, -34, -52, -69, -87, -104, -121, -139, -156, -173, -190, -207, -224, -241, -258, -275,
     -292, -309, -325, -342, -358, -374, -390, -406, -422, -438, -453, -469, -484, -499, -515,
     -529, -544, -559, -573, -587, -601, -615, -629, -642, -656, -669, -681, -694, -707, -719,
     -731, -743, -754, -766, -777, -788, -798, -809, -819, -829, -838, -848, -857, -866, -874,
     -882, -891, -898, -906, -913, -920, -927, -933, -939, -945, -951, -956, -961, -965, -970,
     -974, -978, -981, -984, -987, -990, -992, -994, -996, -997, -998, -999, -999, -1000, -999,
     -999, -998, -997, -996, -994, -992, -990, -987, -984, -981, -978, -974, -970, -965, -961,
     -956, -951, -945, -939, -933, -927, -920, -913, -906, -898, -891, -882, -874, -866, -857,
     -848, -838, -829, -819, -809, -798, -788, -777, -766, -754, -743, -731, -719, -707, -694,
     -681, -669, -656, -642, -629, -615, -601, -587, -573, -559, -544, -529, -515, -500, -484,
     -469, -453, -438, -422, -406, -390, -374, -358, -342, -325, -309, -292, -275, -258, -241,
     -224, -207, -190, -173, -156, -139, -121, -104, -87, -69, -52, -34, -17, 0, 17, 34, 52, 69,
     87, 104, 121, 139, 156, 173, 190, 207, 224, 241, 258, 275, 292, 309, 325, 342, 358, 374,
     390, 406, 422, 438, 453, 469, 484, 500, 515, 529, 544, 559, 573, 587, 601, 615, 629, 642,
     656, 669, 681, 694, 707, 719, 731, 743, 754, 766, 777, 788, 798, 809, 819, 829, 838, 848,
     857, 866, 874, 882, 891, 898, 906, 913, 920, 927, 933, 939, 945, 951, 956, 961, 965, 970,
     974, 978, 981, 984, 987, 990, 992, 994, 996, 997, 998, 999, 999 >>

SinTab ==
  << 0, 17, 34, 52, 69, 87, 104, 121, 139, 156, 173, 190, 207, 224, 241, 258, 275, 292, 309,
     325, 342, 358, 374, 390, 406, 422, 438, 453, 469, 484, 499, 515, 529, 544, 559, 573, 587,
     601, 615, 629, 642, 656, 669, 681, 694, 707, 719, 731, 743, 754, 766, 777, 788, 798, 809,
     819, 829, 838, 848, 857, 866, 874, 882, 891, 898, 906, 913, 920, 927, 933, 939, 945, 951,
     956, 961, 965, 970, 974, 978, 981, 984, 987, 990, 992, 994, 996, 997, 998, 999, 999, 1000,
     999, 999, 998, 997, 996, 994, 992, 990, 987, 984, 981, 978, 974, 970, 965, 961, 956, 951,
     945, 939, 933, 927, 920, 913, 906, 898, 891, 882, 874, 866, 857, 848, 838, 829, 819, 809,
     798, 788, 777, 766, 754, 743, 731, 719, 707, 694, 681, 669, 656, 642, 629, 615, 601, 587,
     573, 559, 544, 529, 515, 499, 484, 469, 453, 438, 422, 406, 390, 374, 358, 342, 325, 309,
     292, 275, 258, 241, 224, 207, 190, 173, 156, 139, 121, 104, 87, 69, 52, 34, 17, 0, -17,
     -34, -52, -69, -87, -104, -121, -139, -156, -173, -190, -207, -224, -241, -258, -275, -292,
     -309, -325, -342, -358, -374, -390, -406, -422, -438, -453, -469, -484, -500, -515, -529,
     -544, -559, -573, -587, -601, -615, -629, -642, -656, -669, -681, -694, -707, -719, -731,
     -743, -754, -766, -777, -788, -798, -809, -819, -829, -838, -848, -857, -866, -874, -882,
     -891, -898, -906, -913, -920, -927, -933, -939, -945, -951, -956, -961, -965, -970, -974,
     -978, -981, -984, -987, -990, -992, -994, -996, -997, -998, -999, -999, -1000, -999, -999,
     -998, -997, -996, -994, -992, -990, -987, -984, -981, -978, -974, -970, -965, -961, -956,
     -951, -945, -939, -933, -927, -920, -913, -906, -898, -891, -882, -874, -866, -857, -848,
     -838, -829, -819, -809, -798, -788, -777, -766, -754, -743, -731, -719, -707, -694, -681,
     -669, -656, -642, -629, -615, -601, -587, -573, -559, -544, -529, -515, -500, -484, -469,
     -453, -438, -422, -406, -390, -374, -358, -342, -325, -309, -292, -275, -258, -241, -224,
     -207, -190, -173, -156, -139, -121, -104, -87, -69, -52, -34, -17 >>

\* ------------------------------------------------------------------ libm

RECURSIVE Gcd(_, _)
\* the greatest common divisor of two naturals
Gcd(a, b) == IF b = 0 THEN a ELSE Gcd(b, a % b)

\* atan(p/q) in thousandths of a degree for 0 <= p <= q, q > 0: the table is
\* read at the fraction in lowest terms
AtanFirstOctant(p, q) == AtanTab[q \div Gcd(p, q)][(p \div Gcd(p, q)) + 1]

\* atan2(y, x) * 180.0 / M_PI, after "if (angle_deg < 0) angle_deg += 360.0",
\* in thousandths of a degree: a value in [0, 360000)
Atan2Milli(y, x) ==
  LET ax == Abs(x)
      ay == Abs(y)
      base == IF ax = 0 /\ ay = 0 THEN 0
              ELSE IF ay <= ax THEN AtanFirstOctant(ay, ax)
              ELSE 90000 - AtanFirstOctant(ax, ay)
  IN  IF x >= 0 /\ y >= 0 THEN base
      ELSE IF x < 0 /\ y >= 0 THEN 180000 - base
      ELSE IF x < 0 /\ y < 0 THEN 180000 + base
      ELSE (360000 - base) % 360000

\* the cosine kept to two decimal places only
CosCenti(deg) == 10 * TruncDiv(CosTab[Abs(deg) + 1], 10)

\* (int32_t)(cos(deg * M_PI / 180.0) * 1000.0), for |deg| < 360
CosMilli(deg) == CosTab[Abs(deg) + 1]

\* (int32_t)(sin(deg * M_PI / 180.0) * 1000.0), for |deg| < 360
SinMilli(deg) == IF deg < 0 THEN -SinTab[-deg + 1] ELSE SinTab[deg + 1]

\* ------------------------------------------------------------------ configuration

\* struct runtime_processor_config, with the defaults RUNTIME_PROCESSOR_INST gives
\* a node that sets only its label, codes and behaviours
BaseConfig(name) ==
  [ name |-> name,
    type |-> INPUT_EV_REL,
    x_codes |-> <<INPUT_REL_X>>,
    y_codes |-> <<INPUT_REL_Y>>,
    initial_scale_multiplier |-> 1,
    initial_scale_divisor |-> 1,
    initial_rotation_degrees |-> 0,
    temp_layer_transparent_behavior |-> "NULL",
    temp_layer_kp_behavior |-> "NULL",
    temp_layer_keep_keycodes |-> << >>,
    initial_temp_layer_enabled |-> FALSE,
    initial_temp_layer_layer |-> 0,
    initial_temp_layer_activation_delay_ms |-> 100,
    initial_temp_layer_deactivation_delay_ms |-> 500,
    initial_active_layers |-> {},
    initial_axis_snap_mode |-> AXIS_SNAP_MODE_NONE,
    initial_axis_snap_threshold |-> 100,
    initial_axis_snap_timeout_ms |-> 1000,
    initial_xy_to_scroll_enabled |-> FALSE,
    initial_xy_swap_enabled |-> FALSE,
    initial_x_invert |-> FALSE,
    initial_y_invert |-> FALSE,
    keybind_behaviors |-> << >>,
    initial_keybind_enabled |-> FALSE,
    initial_keybind_behavior_count |-> 4,
    initial_keybind_degree_offset |-> 0,
    initial_keybind_tick |-> 10 ]

\* update_rotation_values: <<cos_val, sin_val>>
update_rotation_values(rotation_degrees) ==
  IF rotation_degrees = 0 THEN <<FIXED_POINT_SCALE, 0>>
  ELSE <<CosMilli(rotation_degrees), SinMilli(rotation_degrees)>>

\* runtime_processor_init: struct runtime_processor_data after init
runtime_processor_init(c) ==
  [ scale_multiplier |-> c.initial_scale_multiplier,
    scale_divisor |-> c.initial_scale_divisor,
    rotation_degrees |-> c.initial_rotation_degrees,
    persistent_scale_multiplier |-> c.initial_scale_multiplier,
    persistent_scale_divisor |-> c.initial_scale_divisor,
    persistent_rotation_degrees |-> c.initial_rotation_degrees,
    cos_val |-> update_rotation_values(c.initial_rotation_degrees)[1],
    sin_val |-> update_rotation_values(c.initial_rotation_degrees)[2],
    last_x |-> 0,
    last_y |-> 0,
    has_x |-> FALSE,
    has_y |-> FALSE,
    temp_layer_enabled |-> c.initial_temp_layer_enabled,
    temp_layer_layer |-> c.initial_temp_layer_layer,
    temp_layer_activation_delay_ms |-> c.initial_temp_layer_activation_delay_ms,
    temp_layer_deactivation_delay_ms |-> c.initial_temp_layer_deactivation_delay_ms,
    persistent_temp_layer_enabled |-> c.initial_temp_layer_enabled,
    persistent_temp_layer_layer |-> c.initial_temp_layer_layer,
    persistent_temp_layer_activation_delay_ms |-> c.initial_temp_layer_activation_delay_ms,
    persistent_temp_layer_deactivation_delay_ms |-> c.initial_temp_layer_deactivation_delay_ms,
    active_layers |-> c.initial_active_layers,
    persistent_active_layers |-> c.initial_active_layers,
    axis_snap_mode |-> c.initial_axis_snap_mode,
    axis_snap_threshold |-> c.initial_axis_snap_threshold,
    axis_snap_timeout_ms |-> c.initial_axis_snap_timeout_ms,
    persistent_axis_snap_mode |-> c.initial_axis_snap_mode,
    persistent_axis_snap_threshold |-> c.initial_axis_snap_threshold,
    persistent_axis_snap_timeout_ms |-> c.initial_axis_snap_timeout_ms,
    axis_snap_cross_axis_accum |-> 0,
    axis_snap_last_decay_timestamp |-> 0,
    xy_to_scroll_enabled |-> c.initial_xy_to_scroll_enabled,
    xy_swap_enabled |-> c.initial_xy_swap_enabled,
    persistent_xy_to_scroll_enabled |-> c.initial_xy_to_scroll_enabled,
    persistent_xy_swap_enabled |-> c.initial_xy_swap_enabled,
    x_invert |-> c.initial_x_invert,
    y_invert |-> c.initial_y_invert,
    persistent_x_invert |-> c.initial_x_invert,
    persistent_y_invert |-> c.initial_y_invert,
    keybind_enabled |-> c.initial_keybind_enabled,
    keybind_behavior_count |-> c.initial_keybind_behavior_count,
    keybind_degree_offset |-> c.initial_keybind_degree_offset,
    keybind_tick |-> c.initial_keybind_tick,
    persistent_keybind_enabled |-> c.initial_keybind_enabled,
    persistent_keybind_behavior_count |-> c.initial_keybind_behavior_count,
    persistent_keybind_degree_offset |-> c.initial_keybind_degree_offset,
    persistent_keybind_tick |-> c.initial_keybind_tick,
    keybind_x_accum |-> 0,
    keybind_y_accum |-> 0,
    temp_layer_layer_active |-> FALSE,
    temp_layer_keep_active |-> FALSE,
    last_input_timestamp |-> 0,
    last_keypress_timestamp |-> 0 ]

\* a k_work_delayable: pending with an absolute deadline, or idle
IdleWork == [pending |-> FALSE, at |-> 0]

\* k_work_reschedule(w, delay): the deadline replaces any earlier one
k_work_reschedule(t, delay) == [pending |-> TRUE, at |-> t + delay]

\* the three handles k_work_init_delayable sets up in runtime_processor_init
InitWork ==
  [ temp_layer_activation_work |-> IdleWork,
    temp_layer_deactivation_work |-> IdleWork,
    save_work |-> IdleWork ]

\* ------------------------------------------------------------------ keymap (external)

HID_USAGE_KEY == 7
HID_KEY_A == 4
HID_KEY_LEFT_CONTROL == 224
HID_KEY_LEFT_SHIFT == 225
HID_KEY_RIGHT_GUI == 231

Binding(dev, page, id) == [behavior_dev |-> dev, page |-> page, id |-> id]

\* the keymap the firmware is built with: KeymapBindings[layer + 1][position + 1].
\* Layer 0 is the base layer; layers 1 and 2 are pointer layers.
KeymapBindings ==
  << << Binding("kp", 0, HID_KEY_A), Binding("kp", HID_USAGE_KEY, HID_KEY_LEFT_SHIFT),
        Binding("kp", 0, HID_KEY_A), Binding("mo", 0, 1) >>,
     << Binding("trans", 0, 0), Binding("trans", 0, 0),
        Binding("mkp", 0, 1), Binding("trans", 0, 0) >>,
     << Binding("trans", 0, 0), Binding("trans", 0, 0),
        Binding("trans", 0, 0), Binding("trans", 0, 0) >> >>

\* the number of layers of that keymap
ZMK_KEYMAP_LAYERS_LEN == Len(KeymapBindings)

Positions == 0..3

NullBinding == Binding("NULL", 0, 0)

\* zmk_keymap_get_layer_binding_at_idx: NULL for a layer outside the keymap
zmk_keymap_get_layer_binding_at_idx(layer, position) ==
  IF layer < ZMK_KEYMAP_LAYERS_LEN /\ position \in Positions
  THEN KeymapBindings[layer + 1][position + 1]
  ELSE NullBinding

\* zmk_keymap_layer_active: the default layer 0 always counts as active
zmk_keymap_layer_active(layer, layers) == layer \in layers \/ layer = 0

\* zmk_keymap_layer_activate / zmk_keymap_layer_deactivate return 0
keymap_call_ok(layer) == layer < ZMK_KEYMAP_LAYERS_LEN

\* is_mod(usage_page, usage_id)
is_mod(usage_page, usage_id) ==
  /\ usage_page = HID_USAGE_KEY
  /\ usage_id >= HID_KEY_LEFT_CONTROL
  /\ usage_id <= HID_KEY_RIGHT_GUI

\* ------------------------------------------------------------------ pipeline stages

\* code_idx: the index of code in list (0-based), or -1 for -ENODEV
code_idx(code, list) ==
  IF \E i \in 1..Len(list) : list[i] = code
  THEN (CHOOSE i \in 1..Len(list) :
          list[i] = code /\ \A j \in 1..(i - 1) : list[j] # code) - 1
  ELSE -1

\* a layer gate that lets every event in
is_processor_active_for_every_mask(active_layers_mask, layers) == TRUE

\* is_processor_active_for_current_layers; the bitmask is the set of its set bits,
\* zmk_keymap_layer_index_to_id is the identity on 0..ZMK_KEYMAP_LAYERS_LEN-1
is_processor_active_for_current_layers(active_layers_mask, layers) ==
  \/ active_layers_mask = {}
  \/ \E layer_idx \in active_layers_mask :
        layer_idx < ZMK_KEYMAP_LAYERS_LEN /\ zmk_keymap_layer_active(layer_idx, layers)

\* the outcomes the behaviour registry can give one keybind trigger
BehaviorOutcomes == {"ok", "no_device", "press_fails", "release_fails"}

\* trigger_keybind_behavior that goes on to the release after a failed press
trigger_keybind_behavior_releases_always(c, behavior_idx, outcome) ==
  IF behavior_idx >= Len(c.keybind_behaviors) THEN [ret |-> "EINVAL", calls |-> << >>]
  ELSE IF outcome = "no_device" THEN [ret |-> "ENODEV", calls |-> << >>]
  ELSE [ret |-> IF outcome = "press_fails" THEN "EPRESS" ELSE "OK",
        calls |-> << <<c.keybind_behaviors[behavior_idx + 1], TRUE, outcome # "press_fails">>,
                     <<c.keybind_behaviors[behavior_idx + 1], FALSE,
                       outcome # "release_fails">> >>]

\* trigger_keybind_behavior: its return value and the binding invocations it made,
\* in order, each <<behaviour name, pressed, succeeded>>
trigger_keybind_behavior(c, behavior_idx, outcome) ==
  IF behavior_idx >= Len(c.keybind_behaviors)
  THEN [ret |-> "EINVAL", calls |-> << >>]
  ELSE LET behavior_name == c.keybind_behaviors[behavior_idx + 1]
       IN  IF outcome = "no_device"
           THEN [ret |-> "ENODEV", calls |-> << >>]
           ELSE IF outcome = "press_fails"
           THEN [ret |-> "EPRESS", calls |-> << <<behavior_name, TRUE, FALSE>> >>]
           ELSE [ret |-> "OK",
                 calls |-> << <<behavior_name, TRUE, TRUE>>,
                              <<behavior_name, FALSE, outcome # "release_fails">> >>]

\* keybind_mode that also asks for as many behaviours as keybind_behavior_count
keybind_mode_needs_all(c, d) ==
  /\ d.keybind_enabled
  /\ d.keybind_behavior_count # 0
  /\ Len(c.keybind_behaviors) >= d.keybind_behavior_count

\* process_keybind, lines 325-328: whether keybind mode handles the event
keybind_mode(c, d) ==
  d.keybind_enabled /\ d.keybind_behavior_count # 0 /\ Len(c.keybind_behaviors) # 0

\* the behaviour count as it is stored
stored_behavior_count(c, d) == d.keybind_behavior_count

\* process_keybind, lines 330-337: the clamped behaviour count
clamped_behavior_count(c, d) ==
  Min(Min(d.keybind_behavior_count, Len(c.keybind_behaviors)), MAX_KEYBIND_BEHAVIORS)

\* process_keybind, lines 347-351: the tick threshold is reached
tick_reached(x_accum, y_accum, keybind_tick) ==
  ~ (x_accum * x_accum + y_accum * y_accum < keybind_tick * keybind_tick)

\* the largest int32_t
INT32_MAX == 2147483647

\* v * v does not fit an int32_t
square_overflows(v) == v # 0 /\ Abs(v) > INT32_MAX \div Abs(v)

\* process_keybind, lines 347-349: a product or the sum of the comparison does
\* not fit the int its operands are multiplied and added in, which is undefined
tick_comparison_overflows(x_accum, y_accum, keybind_tick) ==
  IF square_overflows(x_accum) \/ square_overflows(y_accum) \/ square_overflows(keybind_tick)
  THEN TRUE
  ELSE x_accum * x_accum > INT32_MAX - y_accum * y_accum

\* keybind_behavior_idx without the half segment that centres segment 0 on 0 degrees
keybind_behavior_idx_uncentred(x_accum, y_accum, degree_offset, behavior_count) ==
  LET angle0 == Atan2Milli(y_accum, x_accum) + 1000 * degree_offset
      angle_deg == IF angle0 >= 360000 THEN angle0 - 360000 ELSE angle0
  IN  IF behavior_count = 1 THEN 0
      ELSE Uint8((2 * behavior_count * angle_deg) \div 720000) % behavior_count

\* process_keybind, lines 356-387: behavior_idx from the accumulated vector.
\* Angles are in thousandths of a degree; segment_size = 360/behavior_count is not
\* an integer, so adjusted_angle is kept as twice behavior_count times its value.
keybind_behavior_idx(x_accum, y_accum, degree_offset, behavior_count) ==
  LET angle0 == Atan2Milli(y_accum, x_accum) + 1000 * degree_offset
      angle_deg == IF angle0 >= 360000 THEN angle0 - 360000 ELSE angle0
      adjusted0 == 2 * behavior_count * angle_deg + 360000
      adjusted_angle == IF adjusted0 >= 720000 * behavior_count
                        THEN adjusted0 - 720000 * behavior_count ELSE adjusted0
  IN  IF behavior_count = 1 THEN 0
      ELSE Uint8(adjusted_angle \div 720000) % behavior_count

\* process_keybind that returns before the reset when the trigger did not succeed
process_keybind_early_return(c, d, is_x, value, outcome, overflowed) ==
  IF ~ keybind_mode(c, d)
  THEN [consumed |-> FALSE, d |-> d, fired |-> FALSE, idx |-> 0, vec |-> <<0, 0>>,
        trigger |-> "NONE", calls |-> << >>]
  ELSE
    LET x == IF is_x THEN d.keybind_x_accum + value ELSE d.keybind_x_accum
        y == IF is_x THEN d.keybind_y_accum ELSE d.keybind_y_accum + value
        idx == keybind_behavior_idx(x, y, d.keybind_degree_offset,
                                    clamped_behavior_count(c, d))
        trig == trigger_keybind_behavior(c, idx, outcome)
    IN  IF ~ (IF tick_comparison_overflows(x, y, d.keybind_tick) THEN overflowed
              ELSE tick_reached(x, y, d.keybind_tick))
        THEN [consumed |-> TRUE,
              d |-> [d EXCEPT !.keybind_x_accum = x, !.keybind_y_accum = y],
              fired |-> FALSE, idx |-> 0, vec |-> <<x, y>>,
              trigger |-> "NONE", calls |-> << >>]
        ELSE [consumed |-> TRUE,
              d |-> IF trig.ret = "OK"
                    THEN [d EXCEPT !.keybind_x_accum = 0, !.keybind_y_accum = 0]
                    ELSE [d EXCEPT !.keybind_x_accum = x, !.keybind_y_accum = y],
              fired |-> TRUE, idx |-> idx, vec |-> <<x, y>>,
              trigger |-> trig.ret, calls |-> trig.calls]

\* process_keybind: consumed is its return value; d the instance data afterwards;
\* overflowed is what the build makes of the comparison when it overflows
process_keybind(c, d, is_x, value, outcome, overflowed) ==
  IF ~ keybind_mode(c, d)
  THEN [consumed |-> FALSE, d |-> d, fired |-> FALSE, idx |-> 0, vec |-> <<0, 0>>,
        trigger |-> "NONE", calls |-> << >>]
  ELSE
    LET x == IF is_x THEN d.keybind_x_accum + value ELSE d.keybind_x_accum
        y == IF is_x THEN d.keybind_y_accum ELSE d.keybind_y_accum + value
        idx == keybind_behavior_idx(x, y, d.keybind_degree_offset,
                                    clamped_behavior_count(c, d))
    IN  IF ~ (IF tick_comparison_overflows(x, y, d.keybind_tick) THEN overflowed
              ELSE tick_reached(x, y, d.keybind_tick))
        THEN [consumed |-> TRUE,
              d |-> [d EXCEPT !.keybind_x_accum = x, !.keybind_y_accum = y],
              fired |-> FALSE, idx |-> 0, vec |-> <<x, y>>,
              trigger |-> "NONE", calls |-> << >>]
        ELSE [consumed |-> TRUE,
              d |-> [d EXCEPT !.keybind_x_accum = 0, !.keybind_y_accum = 0],
              fired |-> TRUE, idx |-> idx, vec |-> <<x, y>>,
              trigger |-> trigger_keybind_behavior(c, idx, outcome).ret,
              calls |-> trigger_keybind_behavior(c, idx, outcome).calls]

\* lines 459-481: the code after XY-to-scroll / XY-swap mapping
remap_code(d, is_x, code) ==
  IF d.xy_to_scroll_enabled
  THEN (IF is_x THEN INPUT_REL_HWHEEL ELSE INPUT_REL_WHEEL)
  ELSE IF d.xy_swap_enabled
  THEN (IF is_x THEN INPUT_REL_Y ELSE INPUT_REL_X)
  ELSE code

\* schedules_activation with a window that is still closed at exactly the delay
schedules_activation_strict(d, event_value, t) ==
  /\ d.temp_layer_enabled
  /\ event_value # 0
  /\ ~ d.temp_layer_layer_active
  /\ \/ d.last_keypress_timestamp = 0
     \/ t - d.last_keypress_timestamp > d.temp_layer_activation_delay_ms

\* lines 483-497: whether the event reschedules temp_layer_activation_work
schedules_activation(d, event_value, t) ==
  /\ d.temp_layer_enabled
  /\ event_value # 0
  /\ ~ d.temp_layer_layer_active
  /\ \/ d.last_keypress_timestamp = 0
     \/ t - d.last_keypress_timestamp >= d.temp_layer_activation_delay_ms

\* lines 484-486: last_input_timestamp after the event
tickle_input_timestamp(d, event_value, t) ==
  IF d.temp_layer_enabled /\ event_value # 0 THEN t ELSE d.last_input_timestamp

\* the rotation stage emitting the rotated value whether or not the pair is complete
rotate_unpaired(d, is_x, value, event_value) ==
  IF d.rotation_degrees = 0 THEN [d |-> d, event_value |-> event_value]
  ELSE IF is_x
  THEN [d |-> [d EXCEPT !.last_x = value, !.has_x = TRUE, !.has_y = FALSE],
        event_value |-> Int16(TruncDiv(value * d.cos_val - d.last_y * d.sin_val,
                                       FIXED_POINT_SCALE))]
  ELSE [d |-> [d EXCEPT !.last_y = value, !.has_y = TRUE, !.has_x = FALSE],
        event_value |-> Int16(TruncDiv(d.last_x * d.sin_val + value * d.cos_val,
                                       FIXED_POINT_SCALE))]

\* lines 499-532: the rotation stage; value is the int16_t local of the handler
rotate(d, is_x, value, event_value) ==
  IF d.rotation_degrees = 0 THEN [d |-> d, event_value |-> event_value]
  ELSE IF is_x
  THEN LET rotated_x == TruncDiv(value * d.cos_val - d.last_y * d.sin_val,
                                 FIXED_POINT_SCALE)
       IN  IF d.has_y
           THEN [d |-> [d EXCEPT !.last_x = value, !.has_x = TRUE, !.has_y = FALSE],
                 event_value |-> Int16(rotated_x)]
           ELSE [d |-> [d EXCEPT !.last_x = value, !.has_x = TRUE],
                 event_value |-> 0]
  ELSE LET rotated_y == TruncDiv(d.last_x * d.sin_val + value * d.cos_val,
                                 FIXED_POINT_SCALE)
       IN  IF d.has_x
           THEN [d |-> [d EXCEPT !.last_y = value, !.has_y = TRUE, !.has_x = FALSE],
                 event_value |-> Int16(rotated_y)]
           ELSE [d |-> [d EXCEPT !.last_y = value, !.has_y = TRUE],
                 event_value |-> 0]

\* lines 534-537: axis inversion
invert(d, is_x, event_value) ==
  IF (is_x /\ d.x_invert) \/ (~ is_x /\ d.y_invert) THEN -event_value ELSE event_value

\* lines 548-582: the accumulator after decay, as int16_t arithmetic gives it
\* (decay_per_50ms and total_decay are int16_t)
snap_decay(accum, threshold, timeout_ms, decay_periods) ==
  LET per0 == Int16(threshold \div (timeout_ms \div DECAY_PERIOD_MS))
      decay_per_50ms == IF per0 < 1 THEN 1 ELSE per0
      total_decay == Int16(decay_per_50ms * decay_periods)
      down == Int16(accum - total_decay)
      up == Int16(accum + total_decay)
  IN  IF accum > 0 THEN (IF down < 0 THEN 0 ELSE down)
      ELSE IF accum < 0 THEN (IF up > 0 THEN 0 ELSE up)
      ELSE accum

\* lines 549-555: the number of whole decay periods to apply, 0 when none
snap_decay_periods(d, t) ==
  IF d.axis_snap_timeout_ms > 0 /\ d.axis_snap_last_decay_timestamp > 0
     /\ t - d.axis_snap_last_decay_timestamp > 0
  THEN (t - d.axis_snap_last_decay_timestamp) \div DECAY_PERIOD_MS
  ELSE 0

\* an accumulator that holds the last cross-axis value only
snap_accumulate_last_value(accum, threshold, value) == Int16(value)

\* lines 584-598: the accumulator after a cross-axis event of the given value
snap_accumulate(accum, threshold, value) ==
  LET current_abs_accum == Int16(Abs(accum))
  IN  IF current_abs_accum >= threshold
      THEN Int16(current_abs_accum + Abs(value))
      ELSE Int16(accum + value)

\* lines 600-615: the accumulator after the cap at twice the threshold
snap_cap(accum, threshold) ==
  IF Int16(Abs(accum)) >= threshold /\ Int16(Abs(accum)) > threshold * 2
  THEN Int16((IF accum > 0 THEN threshold ELSE -threshold) * 2)
  ELSE accum

\* the axis snap stage holding the lock while the accumulator is at the threshold
axis_snap_locks_at_threshold(d, is_x, event_value, t) ==
  IF d.axis_snap_mode = AXIS_SNAP_MODE_NONE \/ event_value = 0
  THEN [d |-> d, event_value |-> event_value, fault |-> FALSE]
  ELSE
    LET value == Int16(event_value)
        is_snapped_axis == \/ d.axis_snap_mode = AXIS_SNAP_MODE_X /\ is_x
                           \/ d.axis_snap_mode = AXIS_SNAP_MODE_Y /\ ~ is_x
        periods == snap_decay_periods(d, t)
        fault == periods > 0 /\ d.axis_snap_timeout_ms \div DECAY_PERIOD_MS = 0
        decayed == IF periods > 0
                   THEN snap_decay(d.axis_snap_cross_axis_accum, d.axis_snap_threshold,
                                   d.axis_snap_timeout_ms, periods)
                   ELSE d.axis_snap_cross_axis_accum
        decay_ts == IF periods > 0 THEN t ELSE d.axis_snap_last_decay_timestamp
        summed == snap_accumulate(decayed, d.axis_snap_threshold, value)
        locked == Int16(Abs(summed)) <= d.axis_snap_threshold
    IN  IF fault THEN [d |-> d, event_value |-> event_value, fault |-> TRUE]
        ELSE IF is_snapped_axis
        THEN [d |-> [d EXCEPT !.axis_snap_cross_axis_accum = decayed,
                              !.axis_snap_last_decay_timestamp = decay_ts],
              event_value |-> event_value, fault |-> FALSE]
        ELSE [d |-> [d EXCEPT !.axis_snap_cross_axis_accum =
                                  snap_cap(summed, d.axis_snap_threshold),
                              !.axis_snap_last_decay_timestamp = t],
              event_value |-> IF locked THEN 0 ELSE event_value, fault |-> FALSE]

\* lines 540-627: the axis snap stage; fault is the division by zero of line 557
axis_snap(d, is_x, event_value, t) ==
  IF d.axis_snap_mode = AXIS_SNAP_MODE_NONE \/ event_value = 0
  THEN [d |-> d, event_value |-> event_value, fault |-> FALSE]
  ELSE
    LET value == Int16(event_value)
        is_snapped_axis == \/ d.axis_snap_mode = AXIS_SNAP_MODE_X /\ is_x
                           \/ d.axis_snap_mode = AXIS_SNAP_MODE_Y /\ ~ is_x
        periods == snap_decay_periods(d, t)
        fault == periods > 0 /\ d.axis_snap_timeout_ms \div DECAY_PERIOD_MS = 0
        decayed == IF periods > 0
                   THEN snap_decay(d.axis_snap_cross_axis_accum, d.axis_snap_threshold,
                                   d.axis_snap_timeout_ms, periods)
                   ELSE d.axis_snap_cross_axis_accum
        decay_ts == IF periods > 0 THEN t ELSE d.axis_snap_last_decay_timestamp
        summed == snap_accumulate(decayed, d.axis_snap_threshold, value)
        locked == Int16(Abs(summed)) < d.axis_snap_threshold
    IN  IF fault THEN [d |-> d, event_value |-> event_value, fault |-> TRUE]
        ELSE IF is_snapped_axis
        THEN [d |-> [d EXCEPT !.axis_snap_cross_axis_accum = decayed,
                              !.axis_snap_last_decay_timestamp = decay_ts],
              event_value |-> event_value, fault |-> FALSE]
        ELSE [d |-> [d EXCEPT !.axis_snap_cross_axis_accum =
                                  snap_cap(summed, d.axis_snap_threshold),
                              !.axis_snap_last_decay_timestamp = t],
              event_value |-> IF locked THEN 0 ELSE event_value, fault |-> FALSE]

\* scale_val: the event value and *state->remainder afterwards; fault is the
\* division by (int16_t)div = 0
scale_val(event_value, mul, div, rem) ==
  IF mul = 0 \/ div = 0
  THEN [event_value |-> event_value, rem |-> rem, fault |-> FALSE]
  ELSE IF Int16(div) = 0
  THEN [event_value |-> event_value, rem |-> rem, fault |-> TRUE]
  ELSE LET value_mul == Int16(Int16(event_value * Int16(mul)) + rem)
           scaled == Int16(TruncDiv(value_mul, Int16(div)))
       IN  [event_value |-> scaled,
            rem |-> Int16(value_mul - scaled * Int16(div)),
            fault |-> FALSE]

\* lines 635-640: the event reschedules temp_layer_deactivation_work
schedules_deactivation(d) ==
  d.temp_layer_enabled /\ d.temp_layer_layer_active /\ ~ d.temp_layer_keep_active

NoKeybind ==
  [consumed |-> FALSE, fired |-> FALSE, idx |-> 0, vec |-> <<0, 0>>,
   trigger |-> "NONE", calls |-> << >>]

\* what runtime_processor_handle_event leaves when it forwards the event untouched
Forwarded(d, ev, rem) ==
  [ret |-> "CONTINUE", d |-> d, event |-> ev, rem |-> rem, gated |-> TRUE,
   act |-> FALSE, deact |-> FALSE, kb |-> NoKeybind, fault |-> FALSE]

\* lines 629-642: the scaling stage, the deactivation reschedule and the return;
\* snap is what the axis snap stage left, act whether the activation was scheduled
scale_and_return(d, ev, rem, is_x, act, snap) ==
  LET scaled == IF snap.d.scale_multiplier > 0 /\ snap.d.scale_divisor > 0
                THEN scale_val(snap.event_value, snap.d.scale_multiplier,
                               snap.d.scale_divisor, rem)
                ELSE [event_value |-> snap.event_value, rem |-> rem, fault |-> FALSE]
  IN  IF snap.fault \/ scaled.fault
      THEN [ret |-> "FAULT", d |-> d, event |-> ev, rem |-> rem, gated |-> FALSE,
            act |-> act, deact |-> FALSE, kb |-> NoKeybind, fault |-> TRUE]
      ELSE [ret |-> "CONTINUE", d |-> snap.d,
            event |-> [type |-> ev.type, code |-> remap_code(d, is_x, ev.code),
                       value |-> scaled.event_value],
            rem |-> scaled.rem, gated |-> FALSE,
            act |-> act, deact |-> schedules_deactivation(snap.d),
            kb |-> NoKeybind, fault |-> FALSE]

\* lines 534-627: inversion and axis snap of what the rotation stage left
invert_and_snap(rot, is_x, t) ==
  axis_snap(rot.d, is_x, invert(rot.d, is_x, rot.event_value), t)

\* lines 459-642: the stages after keybind mode, for an event it did not consume
transform_event(d, ev, rem, t, is_x) ==
  scale_and_return(
    d, ev, rem, is_x, schedules_activation(d, ev.value, t),
    invert_and_snap(
      rotate([d EXCEPT !.last_input_timestamp = tickle_input_timestamp(d, ev.value, t)],
             is_x, Int16(ev.value), ev.value),
      is_x, t))

\* keybind mode placed after the temp-layer stage: a consumed event has stamped
\* last_input_timestamp and scheduled the activation
keybind_after_temp_layer(d, ev, rem, t, is_x, kb) ==
  IF kb.consumed
  THEN [ret |-> "STOP",
        d |-> [kb.d EXCEPT !.last_input_timestamp = tickle_input_timestamp(d, ev.value, t)],
        event |-> ev, rem |-> rem, gated |-> FALSE,
        act |-> schedules_activation(d, ev.value, t), deact |-> FALSE,
        kb |-> [consumed |-> TRUE, fired |-> kb.fired, idx |-> kb.idx,
                vec |-> kb.vec, trigger |-> kb.trigger, calls |-> kb.calls],
        fault |-> FALSE]
  ELSE transform_event(d, ev, rem, t, is_x)

\* lines 450-457: kb is what process_keybind returned
keybind_or_transform(d, ev, rem, t, is_x, kb) ==
  IF kb.consumed
  THEN [ret |-> "STOP", d |-> kb.d, event |-> ev, rem |-> rem, gated |-> FALSE,
        act |-> FALSE, deact |-> FALSE,
        kb |-> [consumed |-> TRUE, fired |-> kb.fired, idx |-> kb.idx,
                vec |-> kb.vec, trigger |-> kb.trigger, calls |-> kb.calls],
        fault |-> FALSE]
  ELSE transform_event(d, ev, rem, t, is_x)

\* lines 432-457: the event passed the type and code gates; is_x is x_idx >= 0
gated_event(c, d, ev, rem, t, layers, outcome, overflowed, is_x) ==
  IF ~ is_processor_active_for_current_layers(d.active_layers, layers)
  THEN Forwarded(d, ev, rem)
  ELSE keybind_or_transform(d, ev, rem, t, is_x,
                            process_keybind(c, d, is_x, Int16(ev.value), outcome,
                                            overflowed))

\* an event handler that looks at the code and not at the type of the event
handle_event_of_any_type(c, d, ev, rem, t, layers, outcome, overflowed) ==
  IF code_idx(ev.code, c.x_codes) < 0 /\ code_idx(ev.code, c.y_codes) < 0
  THEN Forwarded(d, ev, rem)
  ELSE gated_event(c, d, ev, rem, t, layers, outcome, overflowed,
                   code_idx(ev.code, c.x_codes) >= 0)

\* runtime_processor_handle_event: its return value, the instance data, the event
\* and the remainder afterwards, and the work items it rescheduled
runtime_processor_handle_event(c, d, ev, rem, t, layers, outcome, overflowed) ==
  IF ev.type # c.type THEN Forwarded(d, ev, rem)
  ELSE IF code_idx(ev.code, c.x_codes) < 0 /\ code_idx(ev.code, c.y_codes) < 0
  THEN Forwarded(d, ev, rem)
  ELSE gated_event(c, d, ev, rem, t, layers, outcome, overflowed,
                   code_idx(ev.code, c.x_codes) >= 0)

\* ------------------------------------------------------------------ temp-layer controller

\* temp_layer_activation_work_handler: <<layer_active afterwards, keymap afterwards>>
temp_layer_activation_work_handler(d, layers) ==
  IF ~ d.temp_layer_enabled \/ d.temp_layer_layer_active
  THEN <<d.temp_layer_layer_active, layers>>
  ELSE IF keymap_call_ok(d.temp_layer_layer)
  THEN <<TRUE, layers \cup {d.temp_layer_layer}>>
  ELSE <<d.temp_layer_layer_active, layers>>

\* temp_layer_deactivation_work_handler without the keep_active check
temp_layer_deactivation_work_handler_unheld(d, layers) ==
  IF ~ d.temp_layer_layer_active
  THEN <<d.temp_layer_layer_active, layers>>
  ELSE IF keymap_call_ok(d.temp_layer_layer)
  THEN <<FALSE, layers \ {d.temp_layer_layer}>>
  ELSE <<d.temp_layer_layer_active, layers>>

\* temp_layer_deactivation_work_handler: <<layer_active afterwards, keymap afterwards>>
temp_layer_deactivation_work_handler(d, layers) ==
  IF ~ d.temp_layer_layer_active \/ d.temp_layer_keep_active
  THEN <<d.temp_layer_layer_active, layers>>
  ELSE IF keymap_call_ok(d.temp_layer_layer)
  THEN <<FALSE, layers \ {d.temp_layer_layer}>>
  ELSE <<d.temp_layer_layer_active, layers>>

\* position_state_changed_listener, lines 1320-1331 and 1360-1368: the binding is
\* the transparent behaviour (device comparison when configured, else by name)
is_transparent(c, binding) ==
  IF c.temp_layer_transparent_behavior # "NULL"
  THEN binding.behavior_dev = c.temp_layer_transparent_behavior
  ELSE binding.behavior_dev = "trans" \/ binding.behavior_dev = "TRANS"

\* lines 1343-1375: the first non-transparent binding scanning the active layers
\* from index ZMK_KEYMAP_LAYERS_LEN - 1 down, NULL when there is none
RECURSIVE resolve_binding(_, _, _, _)
resolve_binding(c, position, layers, layer_idx) ==
  IF layer_idx < 0 THEN NullBinding
  ELSE LET binding == zmk_keymap_get_layer_binding_at_idx(layer_idx, position)
       IN  IF /\ zmk_keymap_layer_active(layer_idx, layers)
              /\ binding # NullBinding
              /\ ~ is_transparent(c, binding)
           THEN binding
           ELSE resolve_binding(c, position, layers, layer_idx - 1)

\* lines 1378-1419: the resolved binding is &kp with a keycode that keeps the layer
is_keep_keycode(c, resolved_binding) ==
  LET is_kp == IF c.temp_layer_kp_behavior # "NULL"
               THEN resolved_binding.behavior_dev = c.temp_layer_kp_behavior
               ELSE resolved_binding.behavior_dev = "kp"
                    \/ resolved_binding.behavior_dev = "KEY_PRESS"
      usage_page == IF resolved_binding.page = 0 THEN HID_USAGE_KEY
                    ELSE resolved_binding.page
  IN  /\ resolved_binding # NullBinding
      /\ is_kp
      /\ IF Len(c.temp_layer_keep_keycodes) > 0
         THEN \E j \in 1..Len(c.temp_layer_keep_keycodes) :
                 c.temp_layer_keep_keycodes[j] = resolved_binding.id
         ELSE is_mod(usage_page, resolved_binding.id)

\* position_state_changed_listener, one instance: "skip" (line 1309), "keep"
\* (lines 1337, 1416) or "deactivate" (lines 1421-1429)
teardown_decision(c, d, position, layers) ==
  LET temp_layer_binding == zmk_keymap_get_layer_binding_at_idx(d.temp_layer_layer, position)
  IN  IF ~ d.temp_layer_enabled \/ ~ d.temp_layer_layer_active \/ d.temp_layer_keep_active
      THEN "skip"
      ELSE IF temp_layer_binding # NullBinding /\ ~ is_transparent(c, temp_layer_binding)
      THEN "keep"
      ELSE IF is_keep_keycode(c, resolve_binding(c, position, layers,
                                                 ZMK_KEYMAP_LAYERS_LEN - 1))
      THEN "keep"
      ELSE "deactivate"

\* position_state_changed_listener on a press: the loop over runtime_processors[],
\* from instance p on; st = [data, work, keymap, decision] is threaded through
RECURSIVE position_pressed(_, _, _)
position_pressed(st, position, p) ==
  IF p \notin Procs THEN st
  ELSE
    LET d == st.data[p]
        decision == teardown_decision(cfg[p], d, position, st.keymap)
        ok == keymap_call_ok(d.temp_layer_layer)
        st1 ==
          IF decision # "deactivate" THEN [st EXCEPT !.decision[p] = decision]
          ELSE [ data |-> IF ok THEN [st.data EXCEPT ![p].temp_layer_layer_active = FALSE]
                          ELSE st.data,
                 work |-> [st.work EXCEPT ![p].temp_layer_deactivation_work = IdleWork],
                 keymap |-> IF ok THEN st.keymap \ {d.temp_layer_layer} ELSE st.keymap,
                 decision |-> [st.decision EXCEPT ![p] = decision] ]
    IN  position_pressed(st1, position, p + 1)

\* ------------------------------------------------------------------ operations

NoEvent == [type |-> 0, code |-> 0, value |-> 0]

\* the 19 tunables of struct processor_settings, by the name of their current
\* value in struct runtime_processor_data
Tunables ==
  { "scale_multiplier", "scale_divisor", "rotation_degrees",
    "temp_layer_enabled", "temp_layer_layer",
    "temp_layer_activation_delay_ms", "temp_layer_deactivation_delay_ms",
    "active_layers",
    "axis_snap_mode", "axis_snap_threshold", "axis_snap_timeout_ms",
    "xy_to_scroll_enabled", "xy_swap_enabled", "x_invert", "y_invert",
    "keybind_enabled", "keybind_behavior_count", "keybind_degree_offset",
    "keybind_tick" }

\* a get_config that hands out the tunables as they are in force
get_config_of_current(c, d) ==
  [ name |-> c.name,
    config |-> [f \in Tunables |-> d[f]] ]

\* zmk_input_processor_runtime_get_config: the name and the configuration it
\* hands out for an instance with configuration c and data d
zmk_input_processor_runtime_get_config(c, d) ==
  [ name |-> c.name,
    config |->
      [ scale_multiplier |-> d.persistent_scale_multiplier,
        scale_divisor |-> d.persistent_scale_divisor,
        rotation_degrees |-> d.persistent_rotation_degrees,
        temp_layer_enabled |-> d.persistent_temp_layer_enabled,
        temp_layer_layer |-> d.persistent_temp_layer_layer,
        temp_layer_activation_delay_ms |-> d.persistent_temp_layer_activation_delay_ms,
        temp_layer_deactivation_delay_ms |-> d.persistent_temp_layer_deactivation_delay_ms,
        active_layers |-> d.persistent_active_layers,
        axis_snap_mode |-> d.persistent_axis_snap_mode,
        axis_snap_threshold |-> d.persistent_axis_snap_threshold,
        axis_snap_timeout_ms |-> d.persistent_axis_snap_timeout_ms,
        xy_to_scroll_enabled |-> d.persistent_xy_to_scroll_enabled,
        xy_swap_enabled |-> d.persistent_xy_swap_enabled,
        x_invert |-> d.persistent_x_invert,
        y_invert |-> d.persistent_y_invert,
        keybind_enabled |-> d.persistent_keybind_enabled,
        keybind_behavior_count |-> d.persistent_keybind_behavior_count,
        keybind_degree_offset |-> d.persistent_keybind_degree_offset,
        keybind_tick |-> d.persistent_keybind_tick ] ]

\* raise_state_changed_event: the zmk_input_processor_state_changed event it raises
raise_state_changed_event(c, d) == zmk_input_processor_runtime_get_config(c, d)

\* no state-changed event was raised
NoStateChanged == [name |-> "", config |-> << >>]

\* the record of an operation: what it was given, returned and called
Op(name, p) ==
  [ op |-> name, p |-> p, ret |-> "NONE", arg |-> << >>,
    event_in |-> NoEvent, event_out |-> NoEvent, gated |-> FALSE,
    kb |-> NoKeybind, act |-> FALSE, deact |-> FALSE,
    decision |-> [q \in Procs |-> "none"], raised |-> FALSE, persistent |-> FALSE,
    state_changed |-> NoStateChanged ]

\* the work items of an instance after an event that returned r
work_after_event(w, r, t) ==
  [w EXCEPT
     !.temp_layer_activation_work =
        IF r.act THEN k_work_reschedule(t, 0) ELSE @,
     !.temp_layer_deactivation_work =
        IF r.deact THEN k_work_reschedule(t, r.d.temp_layer_deactivation_delay_ms)
        ELSE @]

\* the state after instance p handled ev and runtime_processor_handle_event gave r
EventHandled(p, ev, r) ==
  /\ data' = [data EXCEPT ![p] = r.d]
  /\ work' = [work EXCEPT ![p] = work_after_event(work[p], r, now)]
  /\ remainder' = [remainder EXCEPT ![p] = r.rem]
  /\ last' = [Op("handle_event", p) EXCEPT
                !.ret = r.ret, !.event_in = ev, !.event_out = r.event,
                !.gated = r.gated, !.kb = r.kb, !.act = r.act, !.deact = r.deact]
  /\ UNCHANGED <<cfg, keymap, now, storage, keybind_data, held_bindings, asleep>>

\* what the build can make of the tick comparison of process_keybind on this
\* event: either answer when the comparison overflows
OverflowResults(c, d, ev) ==
  LET is_x == code_idx(ev.code, c.x_codes) >= 0
      x == IF is_x THEN d.keybind_x_accum + Int16(ev.value) ELSE d.keybind_x_accum
      y == IF is_x THEN d.keybind_y_accum ELSE d.keybind_y_accum + Int16(ev.value)
  IN  IF keybind_mode(c, d) /\ tick_comparison_overflows(x, y, d.keybind_tick)
      THEN BOOLEAN ELSE {FALSE}

\* the input listener passes one event through instance p
HandleEvent(p, ev, outcome) ==
  \E overflowed \in OverflowResults(cfg[p], data[p], ev) :
    EventHandled(p, ev, runtime_processor_handle_event(cfg[p], data[p], ev, remainder[p],
                                                       now, keymap, outcome, overflowed))

\* a delayable work item is run by the work queue once its deadline has come
Due(w) == w.pending /\ w.at <= now

\* the work queue runs temp_layer_activation_work of instance p
ActivationWork(p) ==
  LET r == temp_layer_activation_work_handler(data[p], keymap)
  IN  /\ Due(work[p].temp_layer_activation_work)
      /\ data' = [data EXCEPT ![p].temp_layer_layer_active = r[1]]
      /\ keymap' = r[2]
      /\ work' = [work EXCEPT ![p].temp_layer_activation_work = IdleWork]
      /\ last' = Op("activation_work", p)
      /\ UNCHANGED <<cfg, now, remainder, storage, keybind_data, held_bindings, asleep>>

\* the work queue runs temp_layer_deactivation_work of instance p
DeactivationWork(p) ==
  LET r == temp_layer_deactivation_work_handler(data[p], keymap)
  IN  /\ Due(work[p].temp_layer_deactivation_work)
      /\ data' = [data EXCEPT ![p].temp_layer_layer_active = r[1]]
      /\ keymap' = r[2]
      /\ work' = [work EXCEPT ![p].temp_layer_deactivation_work = IdleWork]
      /\ last' = Op("deactivation_work", p)
      /\ UNCHANGED <<cfg, now, remainder, storage, keybind_data, held_bindings, asleep>>

WorkNames ==
  {"temp_layer_activation_work", "temp_layer_deactivation_work", "save_work"}

\* some work item of some instance, or the release work of the standalone keybind
\* processor, is due
SomeWorkDue ==
  \/ \E p \in Procs : \E w \in WorkNames : Due(work[p][w])
  \/ Due(keybind_data.release_work)

\* the deadlines still to come
PendingDeadlines ==
  { work[pw[1]][pw[2]].at :
      pw \in { qw \in Procs \X WorkNames : work[qw[1]][qw[2]].pending } }
  \cup (IF keybind_data.release_work.pending THEN {keybind_data.release_work.at} ELSE {})

RECURSIVE SetMin(_)
SetMin(S) ==
  LET x == CHOOSE y \in S : TRUE
  IN  IF S = {x} THEN x ELSE Min(x, SetMin(S \ {x}))

\* time passes, up to the next deadline; due work runs before time moves on
Advance(dt) ==
  /\ ~SomeWorkDue
  /\ now + dt <= MaxTicks * dt
  /\ now' = SetMin({now + dt} \cup PendingDeadlines)
  /\ last' = Op("advance", 0)
  /\ UNCHANGED <<cfg, data, work, keymap, remainder, storage, keybind_data, held_bindings, asleep>>

\* keycode_state_changed_listener: last_keypress_timestamp of every instance
keycode_state_changed(st, pressed, t) ==
  IF pressed THEN [p \in Procs |-> [st[p] EXCEPT !.last_keypress_timestamp = t]]
  ELSE st

\* a keycode_state_changed event is raised
KeycodeStateChanged(pressed) ==
  /\ data' = keycode_state_changed(data, pressed, now)
  /\ last' = [Op("keycode_state_changed", 0) EXCEPT !.arg = <<pressed>>]
  /\ UNCHANGED <<cfg, work, keymap, now, remainder, storage, keybind_data, held_bindings, asleep>>

\* a position_state_changed event is raised
PositionStateChanged(position, pressed) ==
  LET st0 == [data |-> data, work |-> work, keymap |-> keymap,
              decision |-> [q \in Procs |-> "none"]]
      st == IF pressed THEN position_pressed(st0, position, 1) ELSE st0
  IN  /\ data' = st.data
      /\ work' = st.work
      /\ keymap' = st.keymap
      /\ last' = [Op("position_state_changed", 0) EXCEPT
                    !.arg = <<pressed, position>>, !.decision = st.decision]
      /\ UNCHANGED <<cfg, now, remainder, storage, keybind_data, held_bindings, asleep>>

\* ------------------------------------------------------------------ runtime API

\* a save that is submitted only if none is pending, keeping the first deadline
schedule_save_keeps_deadline(w, t) ==
  IF w.save_work.pending THEN w
  ELSE [w EXCEPT !.save_work = k_work_reschedule(t, SAVE_DEBOUNCE)]

\* schedule_save_processor_settings and raise_state_changed_event, which every
\* setter runs after a persistent change: the instance's work items afterwards
schedule_save_processor_settings(w, t) ==
  [w EXCEPT !.save_work = k_work_reschedule(t, SAVE_DEBOUNCE)]

\* a setter tail that schedules the save and raises the event for temporary
\* changes as well
SetterDone_saves_always(name, p, arg, d1, persistent) ==
  /\ data' = [data EXCEPT ![p] = d1]
  /\ work' = [work EXCEPT ![p] = schedule_save_processor_settings(work[p], now)]
  /\ last' = [Op(name, p) EXCEPT !.ret = "OK", !.arg = arg, !.raised = TRUE,
                                !.persistent = persistent,
                                !.state_changed = raise_state_changed_event(cfg[p], d1)]
  /\ UNCHANGED <<cfg, keymap, now, remainder, storage, keybind_data, held_bindings, asleep>>

\* the common tail of a setter of instance p that leaves d1 as the instance data
SetterDone(name, p, arg, d1, persistent) ==
  /\ data' = [data EXCEPT ![p] = d1]
  /\ work' = IF persistent
             THEN [work EXCEPT ![p] = schedule_save_processor_settings(work[p], now)]
             ELSE work
  /\ last' = [Op(name, p) EXCEPT !.ret = "OK", !.arg = arg, !.raised = persistent,
                                !.persistent = persistent,
                                !.state_changed =
                                   IF persistent THEN raise_state_changed_event(cfg[p], d1)
                                   ELSE NoStateChanged]
  /\ UNCHANGED <<cfg, keymap, now, remainder, storage, keybind_data, held_bindings, asleep>>

\* a setter that returns -EINVAL before it touches the instance
SetterRejected(name, p, arg) ==
  /\ last' = [Op(name, p) EXCEPT !.ret = "EINVAL", !.arg = arg]
  /\ UNCHANGED <<cfg, data, work, keymap, now, remainder, storage, keybind_data, held_bindings, asleep>>

\* zmk_input_processor_runtime_set_temp_layer
set_temp_layer(p, enabled, layer, activation_delay_ms, deactivation_delay_ms, persistent) ==
  LET d1 == [data[p] EXCEPT
               !.temp_layer_enabled = enabled,
               !.temp_layer_layer = layer,
               !.temp_layer_activation_delay_ms = activation_delay_ms,
               !.temp_layer_deactivation_delay_ms = deactivation_delay_ms]
      d2 == IF persistent
            THEN [d1 EXCEPT
                    !.persistent_temp_layer_enabled = enabled,
                    !.persistent_temp_layer_layer = layer,
                    !.persistent_temp_layer_activation_delay_ms = activation_delay_ms,
                    !.persistent_temp_layer_deactivation_delay_ms = deactivation_delay_ms]
            ELSE d1
      arg == <<enabled, layer, activation_delay_ms, deactivation_delay_ms>>
  IN  IF p = NULL THEN SetterRejected("set_temp_layer", p, arg)
      ELSE SetterDone("set_temp_layer", p, arg, d2, persistent)

\* zmk_input_processor_runtime_set_temp_layer_enabled
set_temp_layer_enabled(p, enabled, persistent) ==
  LET d1 == [data[p] EXCEPT !.temp_layer_enabled = enabled]
      d2 == IF persistent THEN [d1 EXCEPT !.persistent_temp_layer_enabled = enabled]
            ELSE d1
  IN  IF p = NULL THEN SetterRejected("set_temp_layer_enabled", p, <<enabled>>)
      ELSE SetterDone("set_temp_layer_enabled", p, <<enabled>>, d2, persistent)

\* zmk_input_processor_runtime_set_temp_layer_layer
set_temp_layer_layer(p, layer, persistent) ==
  LET d1 == [data[p] EXCEPT !.temp_layer_layer = layer]
      d2 == IF persistent THEN [d1 EXCEPT !.persistent_temp_layer_layer = layer]
            ELSE d1
  IN  IF p = NULL THEN SetterRejected("set_temp_layer_layer", p, <<layer>>)
      ELSE SetterDone("set_temp_layer_layer", p, <<layer>>, d2, persistent)

\* zmk_input_processor_runtime_set_temp_layer_activation_delay
set_temp_layer_activation_delay(p, activation_delay_ms, persistent) ==
  LET d1 == [data[p] EXCEPT !.temp_layer_activation_delay_ms = activation_delay_ms]
      d2 == IF persistent
            THEN [d1 EXCEPT !.persistent_temp_layer_activation_delay_ms =
                              activation_delay_ms]
            ELSE d1
  IN  IF p = NULL
      THEN SetterRejected("set_temp_layer_activation_delay", p, <<activation_delay_ms>>)
      ELSE SetterDone("set_temp_layer_activation_delay", p, <<activation_delay_ms>>,
                      d2, persistent)

\* zmk_input_processor_runtime_set_temp_layer_deactivation_delay
set_temp_layer_deactivation_delay(p, deactivation_delay_ms, persistent) ==
  LET d1 == [data[p] EXCEPT !.temp_layer_deactivation_delay_ms = deactivation_delay_ms]
      d2 == IF persistent
            THEN [d1 EXCEPT !.persistent_temp_layer_deactivation_delay_ms =
                              deactivation_delay_ms]
            ELSE d1
  IN  IF p = NULL
      THEN SetterRejected("set_temp_layer_deactivation_delay", p,
                          <<deactivation_delay_ms>>)
      ELSE SetterDone("set_temp_layer_deactivation_delay", p, <<deactivation_delay_ms>>,
                      d2, persistent)

\* zmk_input_processor_runtime_temp_layer_keep_active
temp_layer_keep_active(p, keep_active) ==
  LET d1 == [data[p] EXCEPT !.temp_layer_keep_active = keep_active]
      resched == ~ keep_active /\ d1.temp_layer_enabled /\ d1.temp_layer_layer_active
  IN  /\ data' = [data EXCEPT ![p] = d1]
      /\ work' = IF resched
                 THEN [work EXCEPT ![p].temp_layer_deactivation_work =
                         k_work_reschedule(now, 0)]
                 ELSE work
      /\ last' = [Op("temp_layer_keep_active", p) EXCEPT
                    !.arg = <<keep_active>>, !.deact = resched]
      /\ UNCHANGED <<cfg, keymap, now, remainder, storage, keybind_data, held_bindings, asleep>>

\* zmk_input_processor_runtime_set_keybind_enabled
set_keybind_enabled(p, enabled, persistent) ==
  LET d1 == [data[p] EXCEPT !.keybind_enabled = enabled]
      d2 == IF persistent THEN [d1 EXCEPT !.persistent_keybind_enabled = enabled]
            ELSE d1
  IN  IF p = NULL THEN SetterRejected("set_keybind_enabled", p, <<enabled>>)
      ELSE SetterDone("set_keybind_enabled", p, <<enabled>>, d2, persistent)

\* zmk_input_processor_runtime_set_keybind_behavior_count
set_keybind_behavior_count(p, count, persistent) ==
  LET d1 == [data[p] EXCEPT !.keybind_behavior_count = count]
      d2 == IF persistent THEN [d1 EXCEPT !.persistent_keybind_behavior_count = count]
            ELSE d1
  IN  IF p = NULL \/ count < 1 \/ count > MAX_KEYBIND_BEHAVIORS
      THEN SetterRejected("set_keybind_behavior_count", p, <<count>>)
      ELSE SetterDone("set_keybind_behavior_count", p, <<count>>, d2, persistent)

\* zmk_input_processor_runtime_set_keybind_degree_offset
set_keybind_degree_offset(p, degree_offset, persistent) ==
  LET d1 == [data[p] EXCEPT !.keybind_degree_offset = degree_offset]
      d2 == IF persistent
            THEN [d1 EXCEPT !.persistent_keybind_degree_offset = degree_offset]
            ELSE d1
  IN  IF p = NULL \/ degree_offset >= 360
      THEN SetterRejected("set_keybind_degree_offset", p, <<degree_offset>>)
      ELSE SetterDone("set_keybind_degree_offset", p, <<degree_offset>>, d2, persistent)

\* zmk_input_processor_runtime_set_keybind_tick
set_keybind_tick(p, tick, persistent) ==
  LET d1 == [data[p] EXCEPT !.keybind_tick = tick]
      d2 == IF persistent THEN [d1 EXCEPT !.persistent_keybind_tick = tick] ELSE d1
  IN  IF p = NULL \/ tick = 0
      THEN SetterRejected("set_keybind_tick", p, <<tick>>)
      ELSE SetterDone("set_keybind_tick", p, <<tick>>, d2, persistent)

\* zmk_input_processor_runtime_set_scaling
set_scaling(p, multiplier, divisor, persistent) ==
  LET d1 == IF multiplier > 0
            THEN [data[p] EXCEPT !.scale_multiplier = multiplier]
            ELSE data[p]
      d2 == IF multiplier > 0 /\ persistent
            THEN [d1 EXCEPT !.persistent_scale_multiplier = multiplier]
            ELSE d1
      d3 == IF divisor > 0 THEN [d2 EXCEPT !.scale_divisor = divisor] ELSE d2
      d4 == IF divisor > 0 /\ persistent
            THEN [d3 EXCEPT !.persistent_scale_divisor = divisor]
            ELSE d3
  IN  IF p = NULL THEN SetterRejected("set_scaling", p, <<multiplier, divisor>>)
      ELSE SetterDone("set_scaling", p, <<multiplier, divisor>>, d4, persistent)

\* zmk_input_processor_runtime_set_rotation
set_rotation(p, degrees, persistent) ==
  LET d1 == [data[p] EXCEPT
               !.rotation_degrees = degrees,
               !.cos_val = update_rotation_values(degrees)[1],
               !.sin_val = update_rotation_values(degrees)[2]]
      d2 == IF persistent THEN [d1 EXCEPT !.persistent_rotation_degrees = degrees]
            ELSE d1
  IN  IF p = NULL THEN SetterRejected("set_rotation", p, <<degrees>>)
      ELSE SetterDone("set_rotation", p, <<degrees>>, d2, persistent)

\* zmk_input_processor_runtime_set_active_layers
set_active_layers(p, layers, persistent) ==
  LET d1 == [data[p] EXCEPT !.active_layers = layers]
      d2 == IF persistent THEN [d1 EXCEPT !.persistent_active_layers = layers] ELSE d1
  IN  IF p = NULL THEN SetterRejected("set_active_layers", p, <<layers>>)
      ELSE SetterDone("set_active_layers", p, <<layers>>, d2, persistent)

\* zmk_input_processor_runtime_set_axis_snap_mode
set_axis_snap_mode(p, mode, persistent) ==
  LET d1 == [data[p] EXCEPT !.axis_snap_mode = mode, !.axis_snap_cross_axis_accum = 0]
      d2 == IF persistent THEN [d1 EXCEPT !.persistent_axis_snap_mode = mode] ELSE d1
  IN  IF p = NULL \/ mode > AXIS_SNAP_MODE_Y
      THEN SetterRejected("set_axis_snap_mode", p, <<mode>>)
      ELSE SetterDone("set_axis_snap_mode", p, <<mode>>, d2, persistent)

\* zmk_input_processor_runtime_set_axis_snap_threshold
set_axis_snap_threshold(p, threshold, persistent) ==
  LET d1 == [data[p] EXCEPT !.axis_snap_threshold = threshold]
      d2 == IF persistent THEN [d1 EXCEPT !.persistent_axis_snap_threshold = threshold]
            ELSE d1
  IN  IF p = NULL THEN SetterRejected("set_axis_snap_threshold", p, <<threshold>>)
      ELSE SetterDone("set_axis_snap_threshold", p, <<threshold>>, d2, persistent)

\* zmk_input_processor_runtime_set_axis_snap_timeout
set_axis_snap_timeout(p, timeout_ms, persistent) ==
  LET d1 == [data[p] EXCEPT !.axis_snap_timeout_ms = timeout_ms]
      d2 == IF persistent THEN [d1 EXCEPT !.persistent_axis_snap_timeout_ms = timeout_ms]
            ELSE d1
  IN  IF p = NULL THEN SetterRejected("set_axis_snap_timeout", p, <<timeout_ms>>)
      ELSE SetterDone("set_axis_snap_timeout", p, <<timeout_ms>>, d2, persistent)

\* set_axis_snap storing whatever mode it is given
set_axis_snap_unchecked(p, mode, threshold, timeout_ms, persistent) ==
  LET d1 == [data[p] EXCEPT
               !.axis_snap_mode = mode,
               !.axis_snap_threshold = threshold,
               !.axis_snap_timeout_ms = timeout_ms,
               !.axis_snap_cross_axis_accum = 0]
      d2 == IF persistent
            THEN [d1 EXCEPT
                    !.persistent_axis_snap_mode = mode,
                    !.persistent_axis_snap_threshold = threshold,
                    !.persistent_axis_snap_timeout_ms = timeout_ms]
            ELSE d1
      arg == <<mode, threshold, timeout_ms>>
  IN  IF p = NULL THEN SetterRejected("set_axis_snap", p, arg)
      ELSE SetterDone("set_axis_snap", p, arg, d2, persistent)

\* zmk_input_processor_runtime_set_axis_snap
set_axis_snap(p, mode, threshold, timeout_ms, persistent) ==
  LET d1 == [data[p] EXCEPT
               !.axis_snap_mode = mode,
               !.axis_snap_threshold = threshold,
               !.axis_snap_timeout_ms = timeout_ms,
               !.axis_snap_cross_axis_accum = 0]
      d2 == IF persistent
            THEN [d1 EXCEPT
                    !.persistent_axis_snap_mode = mode,
                    !.persistent_axis_snap_threshold = threshold,
                    !.persistent_axis_snap_timeout_ms = timeout_ms]
            ELSE d1
      arg == <<mode, threshold, timeout_ms>>
  IN  IF p = NULL \/ mode > AXIS_SNAP_MODE_Y
      THEN SetterRejected("set_axis_snap", p, arg)
      ELSE SetterDone("set_axis_snap", p, arg, d2, persistent)

\* zmk_input_processor_runtime_set_x_invert
set_x_invert(p, invert_axis, persistent) ==
  LET d1 == [data[p] EXCEPT !.x_invert = invert_axis]
      d2 == IF persistent THEN [d1 EXCEPT !.persistent_x_invert = invert_axis] ELSE d1
  IN  IF p = NULL THEN SetterRejected("set_x_invert", p, <<invert_axis>>)
      ELSE SetterDone("set_x_invert", p, <<invert_axis>>, d2, persistent)

\* zmk_input_processor_runtime_set_y_invert
set_y_invert(p, invert_axis, persistent) ==
  LET d1 == [data[p] EXCEPT !.y_invert = invert_axis]
      d2 == IF persistent THEN [d1 EXCEPT !.persistent_y_invert = invert_axis] ELSE d1
  IN  IF p = NULL THEN SetterRejected("set_y_invert", p, <<invert_axis>>)
      ELSE SetterDone("set_y_invert", p, <<invert_axis>>, d2, persistent)

\* zmk_input_processor_runtime_set_xy_to_scroll_enabled
set_xy_to_scroll_enabled(p, enabled, persistent) ==
  LET d1 == [data[p] EXCEPT !.xy_to_scroll_enabled = enabled]
      d2 == IF persistent THEN [d1 EXCEPT !.persistent_xy_to_scroll_enabled = enabled]
            ELSE d1
  IN  IF p = NULL THEN SetterRejected("set_xy_to_scroll_enabled", p, <<enabled>>)
      ELSE SetterDone("set_xy_to_scroll_enabled", p, <<enabled>>, d2, persistent)

\* zmk_input_processor_runtime_set_xy_swap_enabled
set_xy_swap_enabled(p, enabled, persistent) ==
  LET d1 == [data[p] EXCEPT !.xy_swap_enabled = enabled]
      d2 == IF persistent THEN [d1 EXCEPT !.persistent_xy_swap_enabled = enabled] ELSE d1
  IN  IF p = NULL THEN SetterRejected("set_xy_swap_enabled", p, <<enabled>>)
      ELSE SetterDone("set_xy_swap_enabled", p, <<enabled>>, d2, persistent)

\* zmk_input_processor_runtime_reset: the instance data and the keymap afterwards
runtime_reset(c, d, layers) ==
  LET rot == update_rotation_values(c.initial_rotation_degrees)
      d1 == [d EXCEPT
               !.scale_multiplier = c.initial_scale_multiplier,
               !.scale_divisor = c.initial_scale_divisor,
               !.rotation_degrees = c.initial_rotation_degrees,
               !.persistent_scale_multiplier = c.initial_scale_multiplier,
               !.persistent_scale_divisor = c.initial_scale_divisor,
               !.persistent_rotation_degrees = c.initial_rotation_degrees,
               !.temp_layer_enabled = c.initial_temp_layer_enabled,
               !.temp_layer_layer = c.initial_temp_layer_layer,
               !.temp_layer_activation_delay_ms = c.initial_temp_layer_activation_delay_ms,
               !.temp_layer_deactivation_delay_ms =
                   c.initial_temp_layer_deactivation_delay_ms,
               !.persistent_temp_layer_enabled = c.initial_temp_layer_enabled,
               !.persistent_temp_layer_layer = c.initial_temp_layer_layer,
               !.persistent_temp_layer_activation_delay_ms =
                   c.initial_temp_layer_activation_delay_ms,
               !.persistent_temp_layer_deactivation_delay_ms =
                   c.initial_temp_layer_deactivation_delay_ms,
               !.active_layers = c.initial_active_layers,
               !.persistent_active_layers = c.initial_active_layers,
               !.temp_layer_layer_active = FALSE,
               !.x_invert = c.initial_x_invert,
               !.y_invert = c.initial_y_invert,
               !.persistent_x_invert = c.initial_x_invert,
               !.persistent_y_invert = c.initial_y_invert,
               !.keybind_enabled = c.initial_keybind_enabled,
               !.keybind_behavior_count = c.initial_keybind_behavior_count,
               !.keybind_degree_offset = c.initial_keybind_degree_offset,
               !.keybind_tick = c.initial_keybind_tick,
               !.persistent_keybind_enabled = c.initial_keybind_enabled,
               !.persistent_keybind_behavior_count = c.initial_keybind_behavior_count,
               !.persistent_keybind_degree_offset = c.initial_keybind_degree_offset,
               !.persistent_keybind_tick = c.initial_keybind_tick,
               !.keybind_x_accum = 0,
               !.keybind_y_accum = 0,
               !.cos_val = rot[1],
               !.sin_val = rot[2]]
      \* line 1000 deactivates the layer temp_layer_layer names after line 983
      layers1 == IF d.temp_layer_layer_active /\ keymap_call_ok(d1.temp_layer_layer)
                 THEN layers \ {d1.temp_layer_layer}
                 ELSE layers
  IN  <<d1, layers1>>

\* zmk_input_processor_runtime_reset is called on instance p
Reset(p) ==
  LET r == runtime_reset(cfg[p], data[p], keymap)
  IN  /\ data' = [data EXCEPT ![p] = r[1]]
      /\ keymap' = r[2]
      /\ work' = [work EXCEPT ![p] = schedule_save_processor_settings(work[p], now)]
      /\ last' = [Op("reset", p) EXCEPT
                    !.ret = "OK", !.raised = TRUE,
                    !.state_changed = raise_state_changed_event(cfg[p], r[1])]
      /\ UNCHANGED <<cfg, now, remainder, storage, keybind_data, held_bindings, asleep>>

\* zmk_input_processor_runtime_restore_persistent: the instance data afterwards
restore_persistent(d) ==
  LET rot == update_rotation_values(d.persistent_rotation_degrees)
  IN  [d EXCEPT
         !.scale_multiplier = d.persistent_scale_multiplier,
         !.scale_divisor = d.persistent_scale_divisor,
         !.rotation_degrees = d.persistent_rotation_degrees,
         !.cos_val = rot[1],
         !.sin_val = rot[2],
         !.axis_snap_mode = d.persistent_axis_snap_mode,
         !.axis_snap_threshold = d.persistent_axis_snap_threshold,
         !.axis_snap_timeout_ms = d.persistent_axis_snap_timeout_ms,
         !.axis_snap_cross_axis_accum = 0,
         !.axis_snap_last_decay_timestamp = 0,
         !.x_invert = d.persistent_x_invert,
         !.y_invert = d.persistent_y_invert,
         !.keybind_enabled = d.persistent_keybind_enabled,
         !.keybind_behavior_count = d.persistent_keybind_behavior_count,
         !.keybind_degree_offset = d.persistent_keybind_degree_offset,
         !.keybind_tick = d.persistent_keybind_tick,
         !.keybind_x_accum = 0,
         !.keybind_y_accum = 0]

\* zmk_input_processor_runtime_restore_persistent is called on instance p
RestorePersistent(p) ==
  /\ data' = [data EXCEPT ![p] = restore_persistent(data[p])]
  /\ last' = Op("restore_persistent", p)
  /\ UNCHANGED <<cfg, work, keymap, now, remainder, storage, keybind_data, held_bindings, asleep>>

\* struct processor_settings as save_processor_settings_work_handler fills it
processor_settings(d) ==
  [ scale_multiplier |-> d.persistent_scale_multiplier,
    scale_divisor |-> d.persistent_scale_divisor,
    rotation_degrees |-> d.persistent_rotation_degrees,
    temp_layer_enabled |-> d.persistent_temp_layer_enabled,
    temp_layer_layer |-> d.persistent_temp_layer_layer,
    temp_layer_activation_delay_ms |-> d.persistent_temp_layer_activation_delay_ms,
    temp_layer_deactivation_delay_ms |-> d.persistent_temp_layer_deactivation_delay_ms,
    active_layers |-> d.persistent_active_layers,
    axis_snap_mode |-> d.persistent_axis_snap_mode,
    axis_snap_threshold |-> d.persistent_axis_snap_threshold,
    axis_snap_timeout_ms |-> d.persistent_axis_snap_timeout_ms,
    xy_to_scroll_enabled |-> d.persistent_xy_to_scroll_enabled,
    xy_swap_enabled |-> d.persistent_xy_swap_enabled,
    x_invert |-> d.persistent_x_invert,
    y_invert |-> d.persistent_y_invert,
    keybind_enabled |-> d.persistent_keybind_enabled,
    keybind_behavior_count |-> d.persistent_keybind_behavior_count,
    keybind_degree_offset |-> d.persistent_keybind_degree_offset,
    keybind_tick |-> d.persistent_keybind_tick ]

\* the work queue runs save_work of instance p (save_processor_settings_work_handler)
SaveWork(p) ==
  /\ Due(work[p].save_work)
  /\ storage' = [storage EXCEPT ![p] = [saved |-> TRUE,
                                        settings |-> processor_settings(data[p])]]
  /\ work' = [work EXCEPT ![p].save_work = IdleWork]
  /\ last' = Op("save_work", p)
  /\ UNCHANGED <<cfg, data, keymap, now, remainder, keybind_data, held_bindings, asleep>>

\* ------------------------------------------------------------------ standalone keybind processor

\* struct keybind_processor_config as KEYBIND_PROCESSOR_INST fills it for a node
\* with four bindings; bindings_len is Len(bindings), an active_layers mask is the
\* set of its set bits
KeybindProcessorConfig ==
  [ name |-> "keybind",
    type |-> INPUT_EV_REL,
    x_codes |-> <<INPUT_REL_X>>,
    y_codes |-> <<INPUT_REL_Y>>,
    bindings |-> <<"kp_up", "kp_right", "kp_down", "kp_left">>,
    initial_tick |-> 10,
    initial_degree_offset |-> 0,
    track_remainders |-> TRUE,
    initial_wait_ms |-> 0,
    initial_tap_ms |-> 100,
    initial_active_layers |-> {} ]

\* update_offset_rotation: <<cos_offset, sin_offset>>
update_offset_rotation(degree_offset) ==
  IF degree_offset = 0 THEN <<1000, 0>>
  ELSE <<CosMilli(degree_offset), SinMilli(degree_offset)>>

\* keybind_processor_init
keybind_processor_init(c) ==
  [ x_accum |-> 0,
    y_accum |-> 0,
    x_remainder |-> 0,
    y_remainder |-> 0,
    tick |-> c.initial_tick,
    degree_offset |-> c.initial_degree_offset,
    wait_ms |-> c.initial_wait_ms,
    tap_ms |-> c.initial_tap_ms,
    active_layers |-> c.initial_active_layers,
    last_triggered_binding |-> -1,
    key_pressed |-> FALSE,
    release_work |-> IdleWork,
    cos_offset |-> update_offset_rotation(c.initial_degree_offset)[1],
    sin_offset |-> update_offset_rotation(c.initial_degree_offset)[2] ]

\* release_work_handler: the data it leaves and the binding invocations it made,
\* each <<binding index, pressed, succeeded>>
release_work_handler(c, d, release_ok) ==
  IF ~ d.key_pressed \/ d.last_triggered_binding < 0
  THEN [d |-> d, calls |-> << >>]
  ELSE [d |-> [d EXCEPT !.key_pressed = FALSE, !.last_triggered_binding = -1],
        calls |-> << <<d.last_triggered_binding, FALSE, release_ok>> >>]

\* trigger_binding, lines 161-181: the press of the new binding at uptime t, after
\* r, the data and the invocations the release of the old binding left
press_binding(r, binding_idx, t, press_ok) ==
  IF ~ press_ok
  THEN [ret |-> "EPRESS", d |-> r.d,
        calls |-> Append(r.calls, <<binding_idx, TRUE, FALSE>>)]
  ELSE [ret |-> "OK",
        d |-> [r.d EXCEPT !.key_pressed = TRUE,
                          !.last_triggered_binding = binding_idx,
                          !.release_work = k_work_reschedule(t, r.d.tap_ms)],
        calls |-> Append(r.calls, <<binding_idx, TRUE, TRUE>>)]

\* a trigger_binding that presses the new binding without a look at the old one
trigger_binding_without_release(c, d, binding_idx, t, press_ok, release_ok) ==
  IF binding_idx < 0 \/ binding_idx >= Len(c.bindings)
  THEN [ret |-> "EINVAL", d |-> d, calls |-> << >>]
  ELSE press_binding([d |-> d, calls |-> << >>], binding_idx, t, press_ok)

\* trigger_binding at uptime t: its return value, the data it leaves and the
\* binding invocations it made, in order
trigger_binding(c, d, binding_idx, t, press_ok, release_ok) ==
  IF binding_idx < 0 \/ binding_idx >= Len(c.bindings)
  THEN [ret |-> "EINVAL", d |-> d, calls |-> << >>]
  ELSE press_binding(IF d.key_pressed /\ d.last_triggered_binding >= 0
                     THEN release_work_handler(c, [d EXCEPT !.release_work = IdleWork],
                                               release_ok)
                     ELSE [d |-> d, calls |-> << >>],
                     binding_idx, t, press_ok)

\* determine_direction. angle_deg is atan2 * 180.0 / 3.14159265359, a divisor
\* larger than pi: a positive angle comes out a little below the exact one and
\* falls into the section below when it is exactly on a boundary; a negative one
\* comes out a little above after the 360.0 is added
determine_direction(x, y, cos_offset, sin_offset, num_bindings) ==
  IF num_bindings = 0 THEN -1
  ELSE LET x_rotated == TruncDiv(x * cos_offset - y * sin_offset, 1000)
           y_rotated == TruncDiv(x * sin_offset + y * cos_offset, 1000)
           below == x_rotated > 0 \/ (x_rotated = 0 /\ y_rotated < 0)
           scaled == Atan2Milli(x_rotated, y_rotated) * num_bindings
           section == IF below /\ scaled % 360000 = 0
                      THEN (scaled \div 360000) - 1
                      ELSE scaled \div 360000
       IN  IF section >= num_bindings THEN num_bindings - 1 ELSE section

\* keybind_processor_handle_event, lines 249-263: the movement is accumulated;
\* rem is *state->remainder, or NULL when the listener keeps none
accumulate_movement(c, d, ev, rem) ==
  LET value == Int16(ev.value)
      tracked == IF c.track_remainders /\ rem # NULL THEN rem ELSE 0
  IN  IF code_idx(ev.code, c.x_codes) >= 0
      THEN [d EXCEPT !.x_accum = @ + value, !.x_remainder = @ + tracked]
      ELSE [d EXCEPT !.y_accum = @ + value, !.y_remainder = @ + tracked]

\* keybind_processor_handle_event, lines 276-301: binding_idx was triggered with
\* the result tr, the accumulation is reset and the handler sleeps for wait_ms
triggered_and_reset(c, d1, ev, binding_idx, tr) ==
  [ ret |-> "STOP",
    event |-> [ev EXCEPT !.value = 0],
    d |-> [tr.d EXCEPT
             !.x_accum = 0, !.y_accum = 0,
             !.x_remainder = IF c.track_remainders THEN 0 ELSE @,
             !.y_remainder = IF c.track_remainders THEN 0 ELSE @],
    kb |-> [consumed |-> TRUE, fired |-> TRUE, idx |-> binding_idx,
            vec |-> <<d1.x_accum, d1.y_accum>>, trigger |-> tr.ret,
            calls |-> tr.calls],
    slept |-> tr.d.wait_ms ]

\* keybind_processor_handle_event, lines 265-301, with the accumulated data d1
check_movement(c, d1, ev, t, binding_idx, press_ok, release_ok, overflowed) ==
  IF /\ IF tick_comparison_overflows(d1.x_accum, d1.y_accum, d1.tick)
        THEN overflowed
        ELSE tick_reached(d1.x_accum, d1.y_accum, d1.tick)
     /\ binding_idx >= 0
  THEN triggered_and_reset(c, d1, ev, binding_idx,
                           trigger_binding(c, d1, binding_idx, t, press_ok, release_ok))
  ELSE [ret |-> "STOP", event |-> [ev EXCEPT !.value = 0], d |-> d1,
        kb |-> [NoKeybind EXCEPT !.consumed = TRUE], slept |-> 0]

\* the direction the accumulated data d1 points in
direction_of(c, d1) ==
  determine_direction(d1.x_accum, d1.y_accum, d1.cos_offset, d1.sin_offset,
                      Len(c.bindings))

\* keybind_processor_handle_event at uptime t with the layers that are active;
\* slept is the time it spends in k_sleep before it returns
keybind_processor_handle_event(c, d, ev, rem, t, layers, press_ok, release_ok, overflowed) ==
  IF \/ ev.type # c.type
     \/ Len(c.bindings) = 0
     \/ (code_idx(ev.code, c.x_codes) < 0 /\ code_idx(ev.code, c.y_codes) < 0)
     \/ ~ is_processor_active_for_current_layers(d.active_layers, layers)
  THEN [ret |-> "CONTINUE", event |-> ev, d |-> d, kb |-> NoKeybind, slept |-> 0]
  ELSE check_movement(c, accumulate_movement(c, d, ev, rem), ev, t,
                      direction_of(c, accumulate_movement(c, d, ev, rem)),
                      press_ok, release_ok, overflowed)

RECURSIVE invoke_bindings(_, _)
\* zmk_behavior_invoke_binding, call after call: a press that succeeds adds its
\* binding to the ones held, a release takes its binding away
invoke_bindings(held, calls) ==
  IF calls = << >> THEN held
  ELSE LET call == Head(calls)
           after == IF call[2]
                    THEN (IF call[3] THEN Append(held, call[1]) ELSE held)
                    ELSE SelectSeq(held, LAMBDA b : b # call[1])
       IN  invoke_bindings(after, Tail(calls))

\* what the build can make of the tick comparison of the standalone processor
KeybindOverflowResults(c, d, ev) ==
  LET is_x == code_idx(ev.code, c.x_codes) >= 0
      x == IF is_x THEN d.x_accum + Int16(ev.value) ELSE d.x_accum
      y == IF is_x THEN d.y_accum ELSE d.y_accum + Int16(ev.value)
  IN  IF tick_comparison_overflows(x, y, d.tick) THEN BOOLEAN ELSE {FALSE}

\* the state after the standalone processor handled ev and its handler gave r
KeybindEventHandled(ev, r) ==
  /\ asleep <= now
  /\ keybind_data' = r.d
  /\ held_bindings' = invoke_bindings(held_bindings, r.kb.calls)
  /\ asleep' = IF r.slept > 0 THEN now + r.slept ELSE asleep
  /\ last' = [Op("keybind_processor_event", 0) EXCEPT
                !.ret = r.ret, !.event_in = ev, !.event_out = r.event, !.kb = r.kb]
  /\ UNCHANGED <<cfg, data, work, keymap, now, remainder, storage>>

\* the input thread passes one event through the standalone keybind processor;
\* while it sleeps in k_sleep it takes no further event. Handlers run to
\* completion: the release work runs before or after the event, never within it
KeybindProcessorEvent(ev, press_ok, release_ok) ==
  \E overflowed \in KeybindOverflowResults(KeybindProcessorConfig, keybind_data, ev) :
    KeybindEventHandled(ev, keybind_processor_handle_event(
                              KeybindProcessorConfig, keybind_data, ev, NULL, now,
                              keymap, press_ok, release_ok, overflowed))

\* the state after release_work ran and release_work_handler gave r
ReleaseWorkDone(r) ==
  /\ keybind_data' = [r.d EXCEPT !.release_work = IdleWork]
  /\ held_bindings' = invoke_bindings(held_bindings, r.calls)
  /\ last' = [Op("release_work", 0) EXCEPT !.kb = [NoKeybind EXCEPT !.calls = r.calls]]
  /\ UNCHANGED <<cfg, data, work, keymap, now, remainder, storage, asleep>>

\* the work queue runs release_work of the standalone keybind processor
ReleaseWork(release_ok) ==
  /\ Due(keybind_data.release_work)
  /\ ReleaseWorkDone(release_work_handler(KeybindProcessorConfig, keybind_data,
                                          release_ok))

\* what the setters of the standalone processor have in common
KeybindSetterDone(name, arg, d1) ==
  /\ keybind_data' = d1
  /\ last' = [Op(name, 0) EXCEPT !.ret = 0, !.arg = arg]
  /\ UNCHANGED <<cfg, data, work, keymap, now, remainder, storage, held_bindings, asleep>>

\* zmk_input_processor_keybind_set_wait_ms on the standalone processor
zmk_input_processor_keybind_set_wait_ms(wait_ms) ==
  KeybindSetterDone("keybind_set_wait_ms", <<wait_ms>>,
                    [keybind_data EXCEPT !.wait_ms = wait_ms])

\* zmk_input_processor_keybind_set_tap_ms on the standalone processor
zmk_input_processor_keybind_set_tap_ms(tap_ms) ==
  KeybindSetterDone("keybind_set_tap_ms", <<tap_ms>>,
                    [keybind_data EXCEPT !.tap_ms = tap_ms])

\* zmk_input_processor_keybind_set_active_layers on the standalone processor
zmk_input_processor_keybind_set_active_layers(layers) ==
  KeybindSetterDone("keybind_set_active_layers", <<layers>>,
                    [keybind_data EXCEPT !.active_layers = layers])

\* the state once every instance has run runtime_processor_init
InitWith(c) ==
  /\ cfg = c
  /\ data = [p \in Procs |-> runtime_processor_init(c[p])]
  /\ work = [p \in Procs |-> InitWork]
  /\ keymap = {0}
  /\ now = 0
  /\ remainder = [p \in Procs |-> 0]
  /\ storage = [p \in Procs |->
                  [saved |-> FALSE,
                   settings |-> processor_settings(runtime_processor_init(c[p]))]]
  /\ last = Op("init", 0)
  /\ keybind_data = keybind_processor_init(KeybindProcessorConfig)
  /\ held_bindings = << >>
  /\ asleep = 0

\* ------------------------------------------------------------------ keybind mode

\* two instances in keybind mode: a trackball with eight behaviours, and a trackpad
\* with two (its count of 4 is clamped)
KeybindConfig ==
  [p \in Procs |->
     IF p = 1
     THEN [BaseConfig("trackball") EXCEPT
             !.keybind_behaviors = <<"right", "up_right", "up", "up_left",
                                     "left", "down_left", "down", "down_right">>,
             !.initial_keybind_enabled = TRUE]
     ELSE [BaseConfig("trackpad") EXCEPT
             !.keybind_behaviors = <<"pg_up", "pg_dn">>,
             !.initial_keybind_enabled = TRUE,
             !.initial_keybind_degree_offset = 90]]

InitKeybind == InitWith(KeybindConfig)

\* the event values each instance is sent
MoveValues(p) == IF p = 1 THEN {-10, 5, 10} ELSE {-10, 10}

\* relative X/Y motion, a relative code no instance lists, and a key event
KeybindEvents(p) ==
  [type : {INPUT_EV_REL}, code : {INPUT_REL_X, INPUT_REL_Y}, value : MoveValues(p)]
  \cup (IF p = 1
        THEN {[type |-> INPUT_EV_REL, code |-> INPUT_REL_MISC, value |-> 10],
              [type |-> INPUT_EV_KEY, code |-> INPUT_REL_X, value |-> 10]}
        ELSE {})

\* the outcomes of the behaviour invocations an event can lead to
OutcomesFor(p, ev) ==
  IF runtime_processor_handle_event(cfg[p], data[p], ev, remainder[p], now, keymap,
                                    "ok", FALSE).kb.fired
  THEN BehaviorOutcomes ELSE {"ok"}

NextKeybind ==
  \/ \E p \in Procs : \E ev \in KeybindEvents(p) : \E outcome \in OutcomesFor(p, ev) :
        HandleEvent(p, ev, outcome)
  \/ \E enabled \in BOOLEAN : set_keybind_enabled(1, enabled, FALSE)
  \/ \E count \in {1, 2, 3, 4, 8} : set_keybind_behavior_count(1, count, FALSE)
  \/ \E degree_offset \in {0, 45} : set_keybind_degree_offset(1, degree_offset, FALSE)
  \/ \E tick \in {10, 12} : set_keybind_tick(1, tick, FALSE)
  \/ RestorePersistent(1)

SpecKeybind == InitKeybind /\ [][NextKeybind]_vars

\* ------------------------------------------------------------------ temp layer

\* two instances with the temp layer enabled: the trackball on layer 1 with the
\* transparent and key-press behaviours configured and no keep list, the trackpad
\* on layer 2 with the name fallback, a keep list, and one keybind behaviour that
\* fires on every event once keybind mode is switched on
TempLayerConfig ==
  [p \in Procs |->
     IF p = 1
     THEN [BaseConfig("trackball") EXCEPT
             !.initial_temp_layer_enabled = TRUE,
             !.initial_temp_layer_layer = 1,
             !.initial_temp_layer_deactivation_delay_ms = 200,
             !.temp_layer_transparent_behavior = "trans",
             !.temp_layer_kp_behavior = "kp"]
     ELSE [BaseConfig("trackpad") EXCEPT
             !.initial_temp_layer_enabled = TRUE,
             !.initial_temp_layer_layer = 2,
             !.initial_temp_layer_deactivation_delay_ms = 100,
             !.temp_layer_keep_keycodes = <<HID_KEY_A>>,
             !.keybind_behaviors = <<"click">>,
             !.initial_keybind_tick = 5]]

InitTempLayer == InitWith(TempLayerConfig)

\* pointer motion on X, with and without movement
PointerEvents == [type : {INPUT_EV_REL}, code : {INPUT_REL_X}, value : {0, 5}]

\* what each instance is sent: the trackball moves on X, the trackpad also reports
\* no movement, motion on a code the instances do not list and a key event
EventsFor(p) ==
  IF p = 1 THEN {[type |-> INPUT_EV_REL, code |-> INPUT_REL_X, value |-> 5]}
  ELSE PointerEvents \cup {[type |-> INPUT_EV_REL, code |-> INPUT_REL_MISC, value |-> 5],
                           [type |-> INPUT_EV_KEY, code |-> INPUT_REL_X, value |-> 5]}

\* the layers set_temp_layer_layer is given: the configured one and one the
\* keymap does not have
LayerChoices == {1, 9}

\* presses of the given key positions, and the release of one of them
KeyInputs(positions) ==
  { <<position, TRUE>> : position \in positions } \cup { <<0, FALSE>> }

\* pointer motion, keycode events and the timers, with the trackpad's temp layer and
\* keybind mode switched on and off
NextTempLayer ==
  \/ \E p \in Procs : \E ev \in EventsFor(p) : HandleEvent(p, ev, "ok")
  \/ \E p \in Procs : ActivationWork(p)
  \/ \E p \in Procs : DeactivationWork(p)
  \/ \E dt \in TimeSteps : Advance(dt)
  \/ \E pressed \in BOOLEAN : KeycodeStateChanged(pressed)
  \/ \E enabled \in BOOLEAN : set_temp_layer_enabled(2, enabled, FALSE)
  \/ \E enabled \in BOOLEAN : set_keybind_enabled(2, enabled, FALSE)

SpecTempLayer == InitTempLayer /\ [][NextTempLayer]_vars

\* the same with the runtime API called on the trackball, the only pointer in use
NextTempLayerApi ==
  \/ \E ev \in PointerEvents : HandleEvent(1, ev, "ok")
  \/ ActivationWork(1)
  \/ DeactivationWork(1)
  \/ SaveWork(1)
  \/ \E dt \in TimeSteps : Advance(dt)
  \/ \E pressed \in BOOLEAN : KeycodeStateChanged(pressed)
  \/ \E key \in KeyInputs({0, 1}) : PositionStateChanged(key[1], key[2])
  \/ \E keep_active \in BOOLEAN : temp_layer_keep_active(1, keep_active)
  \/ \E enabled \in BOOLEAN : set_temp_layer_enabled(1, enabled, FALSE)
  \/ \E layer \in LayerChoices : set_temp_layer_layer(1, layer, FALSE)
  \/ Reset(1)

SpecTempLayerApi == InitTempLayer /\ [][NextTempLayerApi]_vars

\* ------------------------------------------------------------------ axis snap

\* the trackball snaps to the X axis with the default threshold of 100 and timeout
\* of 1000 ms; the trackpad has no snap mode
SnapConfig ==
  [p \in Procs |->
     IF p = 1
     THEN [BaseConfig("trackball") EXCEPT !.initial_axis_snap_mode = AXIS_SNAP_MODE_X]
     ELSE BaseConfig("trackpad")]

InitSnap == InitWith(SnapConfig)

\* motion of ten units on either axis, in either direction across the snap axis
SnapEvents ==
  [type : {INPUT_EV_REL}, code : {INPUT_REL_X}, value : {10}]
  \cup [type : {INPUT_EV_REL}, code : {INPUT_REL_Y}, value : {-10, 10}]

\* the clock steps of the snap runs: one decay period and one snap timeout
SnapTimeSteps == {DECAY_PERIOD_MS, 1000}

\* pointer motion on the trackball as time passes, its snap axis switched at run time
NextSnap ==
  \/ \E ev \in SnapEvents : HandleEvent(1, ev, "ok")
  \/ \E dt \in SnapTimeSteps : Advance(dt)
  \/ \E mode \in {AXIS_SNAP_MODE_X, AXIS_SNAP_MODE_Y} : set_axis_snap_mode(1, mode, FALSE)

SpecSnap == InitSnap /\ [][NextSnap]_vars

\* ------------------------------------------------------------------ rotation

\* the trackball is rotated by 90 degrees and the trackpad by 30
RotationConfig ==
  [p \in Procs |->
     IF p = 1
     THEN [BaseConfig("trackball") EXCEPT !.initial_rotation_degrees = 90]
     ELSE [BaseConfig("trackpad") EXCEPT !.initial_rotation_degrees = 30]]

InitRotation == InitWith(RotationConfig)

\* motion on either axis, in any order
RotationEvents ==
  [type : {INPUT_EV_REL}, code : {INPUT_REL_X, INPUT_REL_Y}, value : {-4, 3}]

\* the angles set_rotation is given: none, and one in each direction
RotationChoices == {0, 45, -120}

\* pointer motion on both instances, the trackball's rotation changed at run time
NextRotation ==
  \/ \E p \in Procs : \E ev \in RotationEvents : HandleEvent(p, ev, "ok")
  \/ \E degrees \in RotationChoices : set_rotation(1, degrees, FALSE)

SpecRotation == InitRotation /\ [][NextRotation]_vars

\* ------------------------------------------------------------------ rotation round trip

\* every angle of a turn but 0
Angles == 1 .. 359

\* the trackball rotates by theta and the trackpad, next on the same listener,
\* rotates back by -theta
RoundTripConfig(theta) ==
  [p \in Procs |->
     IF p = 1
     THEN [BaseConfig("trackball") EXCEPT !.initial_rotation_degrees = theta]
     ELSE [BaseConfig("trackpad") EXCEPT !.initial_rotation_degrees = -theta]]

InitRoundTrip == \E theta \in Angles : InitWith(RoundTripConfig(theta))

\* the reports of the pointer: X and Y motion, small and large
RoundTripEvents ==
  [type : {INPUT_EV_REL}, code : {INPUT_REL_X}, value : {-500, 32000}]
  \cup [type : {INPUT_EV_REL}, code : {INPUT_REL_Y}, value : {-474, 4}]

\* the listener still has to pass the event the trackball emitted to the trackpad
ChainPending == last.op = "handle_event" /\ last.p = 1 /\ last.ret = "CONTINUE"

\* the pointer reports X and Y in turn; the listener gives the report to the
\* trackball, the first processor of its chain
PointerReport(ev) ==
  /\ ~ ChainPending
  /\ IF ev.code = INPUT_REL_X THEN ~ data[1].has_x ELSE ~ data[1].has_y
  /\ HandleEvent(1, ev, "ok")

\* the listener gives the event the trackball emitted to the trackpad
NextProcessor ==
  /\ ChainPending
  /\ HandleEvent(2, last.event_out, "ok")

NextRoundTrip ==
  \/ \E ev \in RoundTripEvents : PointerReport(ev)
  \/ NextProcessor

SpecRoundTrip == InitRoundTrip /\ [][NextRoundTrip]_vars

\* ------------------------------------------------------------------ scaling

\* the trackball scales by 3/2; the trackpad starts unscaled
ScaleConfig ==
  [p \in Procs |->
     IF p = 1
     THEN [BaseConfig("trackball") EXCEPT
             !.initial_scale_multiplier = 3, !.initial_scale_divisor = 2]
     ELSE BaseConfig("trackpad")]

InitScale == InitWith(ScaleConfig)

\* each instance is sent one axis, whose remainder its listener keeps: the
\* trackball small and large X motion, the trackpad Y motion in both directions
ScaleEvents(p) ==
  IF p = 1 THEN [type : {INPUT_EV_REL}, code : {INPUT_REL_X}, value : {3, 5, 20000}]
  ELSE [type : {INPUT_EV_REL}, code : {INPUT_REL_Y}, value : {-7, 5}]

\* the factors set_scaling is given
ScaleChoices == {3, 7} \X {2, 4}

\* pointer motion on both instances, the trackpad's scaling changed at run time
NextScale ==
  \/ \E p \in Procs : \E ev \in ScaleEvents(p) : HandleEvent(p, ev, "ok")
  \/ \E f \in ScaleChoices : set_scaling(2, f[1], f[2], FALSE)

SpecScale == InitScale /\ [][NextScale]_vars

\* ------------------------------------------------------------------ runtime API

\* the persistent_* field of struct runtime_processor_data that shadows tunable f
Persistent(f) == "persistent_" \o f

\* the tunables each setter writes, in the order of its arguments
SetterFields ==
  [ set_scaling |-> <<"scale_multiplier", "scale_divisor">>,
    set_rotation |-> <<"rotation_degrees">>,
    set_temp_layer |-> <<"temp_layer_enabled", "temp_layer_layer",
                         "temp_layer_activation_delay_ms",
                         "temp_layer_deactivation_delay_ms">>,
    set_temp_layer_enabled |-> <<"temp_layer_enabled">>,
    set_temp_layer_layer |-> <<"temp_layer_layer">>,
    set_temp_layer_activation_delay |-> <<"temp_layer_activation_delay_ms">>,
    set_temp_layer_deactivation_delay |-> <<"temp_layer_deactivation_delay_ms">>,
    set_active_layers |-> <<"active_layers">>,
    set_axis_snap_mode |-> <<"axis_snap_mode">>,
    set_axis_snap_threshold |-> <<"axis_snap_threshold">>,
    set_axis_snap_timeout |-> <<"axis_snap_timeout_ms">>,
    set_axis_snap |-> <<"axis_snap_mode", "axis_snap_threshold",
                        "axis_snap_timeout_ms">>,
    set_x_invert |-> <<"x_invert">>,
    set_y_invert |-> <<"y_invert">>,
    set_xy_to_scroll_enabled |-> <<"xy_to_scroll_enabled">>,
    set_xy_swap_enabled |-> <<"xy_swap_enabled">>,
    set_keybind_enabled |-> <<"keybind_enabled">>,
    set_keybind_behavior_count |-> <<"keybind_behavior_count">>,
    set_keybind_degree_offset |-> <<"keybind_degree_offset">>,
    set_keybind_tick |-> <<"keybind_tick">> ]

\* the names of the setters
SetterNames == DOMAIN SetterFields

\* the set of tunables the setter called name writes
Written(name) == { SetterFields[name][i] : i \in DOMAIN SetterFields[name] }

\* the arguments each setter is called with: the configured default, another
\* value it accepts and, where it validates, values it must refuse
SetterArgs ==
  [ set_scaling |-> {<<1, 1>>, <<3, 2>>, <<0, 2>>, <<3, 0>>, <<0, 0>>},
    set_rotation |-> {<<0>>, <<90>>},
    set_temp_layer |-> {<<FALSE, 0, 100, 500>>, <<TRUE, 1, 200, 300>>},
    set_temp_layer_enabled |-> {<<FALSE>>, <<TRUE>>},
    set_temp_layer_layer |-> {<<0>>, <<1>>},
    set_temp_layer_activation_delay |-> {<<100>>, <<200>>},
    set_temp_layer_deactivation_delay |-> {<<500>>, <<300>>},
    set_active_layers |-> {<<{}>>, <<{1}>>},
    set_axis_snap_mode |-> {<<AXIS_SNAP_MODE_NONE>>, <<AXIS_SNAP_MODE_X>>,
                            <<AXIS_SNAP_MODE_Y + 1>>},
    set_axis_snap_threshold |-> {<<100>>, <<50>>},
    set_axis_snap_timeout |-> {<<1000>>, <<500>>},
    set_axis_snap |-> {<<AXIS_SNAP_MODE_NONE, 100, 1000>>,
                       <<AXIS_SNAP_MODE_Y, 50, 500>>,
                       <<AXIS_SNAP_MODE_Y + 1, 50, 500>>},
    set_x_invert |-> {<<FALSE>>, <<TRUE>>},
    set_y_invert |-> {<<FALSE>>, <<TRUE>>},
    set_xy_to_scroll_enabled |-> {<<FALSE>>, <<TRUE>>},
    set_xy_swap_enabled |-> {<<FALSE>>, <<TRUE>>},
    set_keybind_enabled |-> {<<FALSE>>, <<TRUE>>},
    set_keybind_behavior_count |-> {<<4>>, <<8>>, <<0>>, <<MAX_KEYBIND_BEHAVIORS + 1>>},
    set_keybind_degree_offset |-> {<<0>>, <<45>>, <<360>>},
    set_keybind_tick |-> {<<10>>, <<20>>, <<0>>} ]

\* both instances as their nodes configure them, with every default
ApiConfig ==
  [p \in Procs |-> IF p = 1 THEN BaseConfig("trackball") ELSE BaseConfig("trackpad")]

InitApi == InitWith(ApiConfig)

\* the handles the API is called with: the trackball and no device at all
ApiDevices == {NULL, 1}

\* the clock step of the API runs: half a save debounce
ApiTimeSteps == {50}

\* the initial_* field of struct runtime_processor_config that configures tunable f
Initial(f) == "initial_" \o f

\* the caller of the API changes one group of tunables at a time: a setter is
\* called on the trackball while every tunable it does not write is as configured,
\* in memory and in storage, and without a device only while all of them are
Call(dev, name) ==
  \A f \in Tunables \ (IF dev = NULL THEN {} ELSE Written(name)) :
    /\ data[1][f] = cfg[1][Initial(f)]
    /\ data[1][Persistent(f)] = cfg[1][Initial(f)]
    /\ storage[1].settings[f] = cfg[1][Initial(f)]

\* a setter of the runtime API is called
ApiCall(dev, persistent) ==
  \/ Call(dev, "set_scaling") /\ \E a \in SetterArgs.set_scaling : set_scaling(dev, a[1], a[2], persistent)
  \/ Call(dev, "set_rotation") /\ \E a \in SetterArgs.set_rotation : set_rotation(dev, a[1], persistent)
  \/ Call(dev, "set_temp_layer") /\ \E a \in SetterArgs.set_temp_layer : set_temp_layer(dev, a[1], a[2], a[3], a[4], persistent)
  \/ Call(dev, "set_temp_layer_enabled") /\ \E a \in SetterArgs.set_temp_layer_enabled : set_temp_layer_enabled(dev, a[1], persistent)
  \/ Call(dev, "set_temp_layer_layer") /\ \E a \in SetterArgs.set_temp_layer_layer : set_temp_layer_layer(dev, a[1], persistent)
  \/ Call(dev, "set_temp_layer_activation_delay") /\ \E a \in SetterArgs.set_temp_layer_activation_delay : set_temp_layer_activation_delay(dev, a[1], persistent)
  \/ Call(dev, "set_temp_layer_deactivation_delay") /\ \E a \in SetterArgs.set_temp_layer_deactivation_delay : set_temp_layer_deactivation_delay(dev, a[1], persistent)
  \/ Call(dev, "set_active_layers") /\ \E a \in SetterArgs.set_active_layers : set_active_layers(dev, a[1], persistent)
  \/ Call(dev, "set_axis_snap_mode") /\ \E a \in SetterArgs.set_axis_snap_mode : set_axis_snap_mode(dev, a[1], persistent)
  \/ Call(dev, "set_axis_snap_threshold") /\ \E a \in SetterArgs.set_axis_snap_threshold : set_axis_snap_threshold(dev, a[1], persistent)
  \/ Call(dev, "set_axis_snap_timeout") /\ \E a \in SetterArgs.set_axis_snap_timeout : set_axis_snap_timeout(dev, a[1], persistent)
  \/ Call(dev, "set_axis_snap") /\ \E a \in SetterArgs.set_axis_snap : set_axis_snap(dev, a[1], a[2], a[3], persistent)
  \/ Call(dev, "set_x_invert") /\ \E a \in SetterArgs.set_x_invert : set_x_invert(dev, a[1], persistent)
  \/ Call(dev, "set_y_invert") /\ \E a \in SetterArgs.set_y_invert : set_y_invert(dev, a[1], persistent)
  \/ Call(dev, "set_xy_to_scroll_enabled") /\ \E a \in SetterArgs.set_xy_to_scroll_enabled : set_xy_to_scroll_enabled(dev, a[1], persistent)
  \/ Call(dev, "set_xy_swap_enabled") /\ \E a \in SetterArgs.set_xy_swap_enabled : set_xy_swap_enabled(dev, a[1], persistent)
  \/ Call(dev, "set_keybind_enabled") /\ \E a \in SetterArgs.set_keybind_enabled : set_keybind_enabled(dev, a[1], persistent)
  \/ Call(dev, "set_keybind_behavior_count") /\ \E a \in SetterArgs.set_keybind_behavior_count : set_keybind_behavior_count(dev, a[1], persistent)
  \/ Call(dev, "set_keybind_degree_offset") /\ \E a \in SetterArgs.set_keybind_degree_offset : set_keybind_degree_offset(dev, a[1], persistent)
  \/ Call(dev, "set_keybind_tick") /\ \E a \in SetterArgs.set_keybind_tick : set_keybind_tick(dev, a[1], persistent)

\* the runtime API called on the trackball, temporarily and persistently, with
\* arguments it accepts and arguments it refuses, as the save debounce runs
NextApi ==
  \/ \E dev \in ApiDevices : \E persistent \in BOOLEAN : ApiCall(dev, persistent)
  \/ Reset(1)
  \/ RestorePersistent(1)
  \/ SaveWork(1)
  \/ \E dt \in ApiTimeSteps : Advance(dt)

SpecApi == InitApi /\ [][NextApi]_vars

\* ------------------------------------------------------------------ settings load

\* sizeof(struct processor_settings)
PROCESSOR_SETTINGS_SIZE == 40

\* a load that takes the record into the persistent view only
load_persistent_only(d, len, read_ok, settings) ==
  IF len = PROCESSOR_SETTINGS_SIZE /\ read_ok
  THEN [ret |-> "OK",
        data |-> [d EXCEPT
                 !.persistent_scale_multiplier = settings.scale_multiplier,
                 !.persistent_scale_divisor = settings.scale_divisor,
                 !.persistent_rotation_degrees = settings.rotation_degrees,
                 !.persistent_temp_layer_enabled = settings.temp_layer_enabled,
                 !.persistent_temp_layer_layer = settings.temp_layer_layer,
                 !.persistent_temp_layer_activation_delay_ms = settings.temp_layer_activation_delay_ms,
                 !.persistent_temp_layer_deactivation_delay_ms = settings.temp_layer_deactivation_delay_ms,
                 !.persistent_active_layers = settings.active_layers,
                 !.persistent_axis_snap_mode = settings.axis_snap_mode,
                 !.persistent_axis_snap_threshold = settings.axis_snap_threshold,
                 !.persistent_axis_snap_timeout_ms = settings.axis_snap_timeout_ms,
                 !.persistent_xy_to_scroll_enabled = settings.xy_to_scroll_enabled,
                 !.persistent_xy_swap_enabled = settings.xy_swap_enabled,
                 !.persistent_x_invert = settings.x_invert,
                 !.persistent_y_invert = settings.y_invert,
                 !.persistent_keybind_enabled = settings.keybind_enabled,
                 !.persistent_keybind_behavior_count = settings.keybind_behavior_count,
                 !.persistent_keybind_degree_offset = settings.keybind_degree_offset,
                 !.persistent_keybind_tick = settings.keybind_tick]]
  ELSE [ret |-> "EINVAL", data |-> d]

\* load_processor_settings_cb on a record of len bytes that read_cb reads or
\* fails to read: the return value and the instance data afterwards
load_processor_settings_cb(d, len, read_ok, settings) ==
  IF len = PROCESSOR_SETTINGS_SIZE /\ read_ok
  THEN LET rot == update_rotation_values(settings.rotation_degrees)
       IN  [ret |-> "OK",
            data |-> [d EXCEPT
                 !.persistent_scale_multiplier = settings.scale_multiplier,
                 !.persistent_scale_divisor = settings.scale_divisor,
                 !.persistent_rotation_degrees = settings.rotation_degrees,
                 !.persistent_temp_layer_enabled = settings.temp_layer_enabled,
                 !.persistent_temp_layer_layer = settings.temp_layer_layer,
                 !.persistent_temp_layer_activation_delay_ms = settings.temp_layer_activation_delay_ms,
                 !.persistent_temp_layer_deactivation_delay_ms = settings.temp_layer_deactivation_delay_ms,
                 !.persistent_active_layers = settings.active_layers,
                 !.persistent_axis_snap_mode = settings.axis_snap_mode,
                 !.persistent_axis_snap_threshold = settings.axis_snap_threshold,
                 !.persistent_axis_snap_timeout_ms = settings.axis_snap_timeout_ms,
                 !.persistent_xy_to_scroll_enabled = settings.xy_to_scroll_enabled,
                 !.persistent_xy_swap_enabled = settings.xy_swap_enabled,
                 !.persistent_x_invert = settings.x_invert,
                 !.persistent_y_invert = settings.y_invert,
                 !.persistent_keybind_enabled = settings.keybind_enabled,
                 !.persistent_keybind_behavior_count = settings.keybind_behavior_count,
                 !.persistent_keybind_degree_offset = settings.keybind_degree_offset,
                 !.persistent_keybind_tick = settings.keybind_tick,
                 !.scale_multiplier = settings.scale_multiplier,
                 !.scale_divisor = settings.scale_divisor,
                 !.rotation_degrees = settings.rotation_degrees,
                 !.temp_layer_enabled = settings.temp_layer_enabled,
                 !.temp_layer_layer = settings.temp_layer_layer,
                 !.temp_layer_activation_delay_ms = settings.temp_layer_activation_delay_ms,
                 !.temp_layer_deactivation_delay_ms = settings.temp_layer_deactivation_delay_ms,
                 !.active_layers = settings.active_layers,
                 !.axis_snap_mode = settings.axis_snap_mode,
                 !.axis_snap_threshold = settings.axis_snap_threshold,
                 !.axis_snap_timeout_ms = settings.axis_snap_timeout_ms,
                 !.xy_to_scroll_enabled = settings.xy_to_scroll_enabled,
                 !.xy_swap_enabled = settings.xy_swap_enabled,
                 !.x_invert = settings.x_invert,
                 !.y_invert = settings.y_invert,
                 !.keybind_enabled = settings.keybind_enabled,
                 !.keybind_behavior_count = settings.keybind_behavior_count,
                 !.keybind_degree_offset = settings.keybind_degree_offset,
                 !.keybind_tick = settings.keybind_tick,
                 !.cos_val = rot[1],
                 !.sin_val = rot[2]]]
  ELSE [ret |-> "EINVAL", data |-> d]

\* the settings subsystem hands instance p the record rec stored under its name
\* (runtime_processor_settings_load_cb)
SettingsLoad(p, rec) ==
  LET r == load_processor_settings_cb(data[p], rec.len, rec.read_ok, rec.settings)
  IN  /\ data' = [data EXCEPT ![p] = r.data]
      /\ last' = [Op("settings_load", p) EXCEPT !.ret = r.ret, !.arg = <<rec>>]
      /\ UNCHANGED <<cfg, work, keymap, now, remainder, storage, keybind_data, held_bindings, asleep>>

\* the keyboard restarts: RAM and the clock start over, every instance runs
\* runtime_processor_init, storage keeps what was saved
Restart ==
  /\ data' = [p \in Procs |-> runtime_processor_init(cfg[p])]
  /\ work' = [p \in Procs |-> InitWork]
  /\ keymap' = {0}
  /\ now' = 0
  /\ remainder' = [p \in Procs |-> 0]
  /\ last' = Op("restart", 0)
  /\ keybind_data' = keybind_processor_init(KeybindProcessorConfig)
  /\ held_bindings' = << >>
  /\ asleep' = 0
  /\ UNCHANGED <<cfg, storage>>

\* the record save_processor_settings_work_handler left in storage for instance p
StoredRecord(p) ==
  [len |-> PROCESSOR_SETTINGS_SIZE, read_ok |-> TRUE, settings |-> storage[p].settings]

\* a record of the expected size that this firmware did not write: its snap
\* mode, degree offset and tick are outside the ranges the setters accept
ForeignSettings(p) ==
  [storage[p].settings EXCEPT
     !.axis_snap_mode = AXIS_SNAP_MODE_Y + 1,
     !.keybind_degree_offset = 360,
     !.keybind_tick = 0]

\* what the settings backend may hold under the name of instance p: the record
\* the instance saved, the same record unreadable, a record four bytes
\* shorter from an older layout, and a foreign record of the expected size
LoadRecords(p) ==
  (IF storage[p].saved
   THEN {StoredRecord(p), [StoredRecord(p) EXCEPT !.read_ok = FALSE]}
   ELSE {})
  \cup {[StoredRecord(p) EXCEPT !.len = PROCESSOR_SETTINGS_SIZE - 4],
        [StoredRecord(p) EXCEPT !.settings = ForeignSettings(p)]}

\* the trackball's scaling and snap mode are changed, saved after the debounce
\* and loaded again, at run time and after a restart
NextSettings ==
  \/ \E persistent \in BOOLEAN : set_scaling(1, 7, 4, persistent)
  \/ set_axis_snap_mode(1, AXIS_SNAP_MODE_X, TRUE)
  \/ Reset(1)
  \/ RestorePersistent(1)
  \/ SaveWork(1)
  \/ \E dt \in TimeSteps : Advance(dt)
  \/ Restart
  \/ \E rec \in LoadRecords(1) : SettingsLoad(1, rec)

SpecSettings == InitApi /\ [][NextSettings]_vars

\* ------------------------------------------------------------------ layer gate

\* the trackball is in keybind mode and active on layer 1 only; the trackpad's
\* temp layer is layer 1, so its motion switches the trackball on and off
LayerGateConfig ==
  [p \in Procs |->
     IF p = 1
     THEN [BaseConfig("trackball") EXCEPT
             !.keybind_behaviors = <<"right", "up", "left", "down">>,
             !.initial_keybind_enabled = TRUE,
             !.initial_active_layers = {1}]
     ELSE [BaseConfig("trackpad") EXCEPT
             !.initial_temp_layer_enabled = TRUE,
             !.initial_temp_layer_layer = 1,
             !.initial_temp_layer_deactivation_delay_ms = 100]]

InitLayerGate == InitWith(LayerGateConfig)

\* half a tick of motion on either axis for the trackball, X motion on the trackpad
LayerGateEvents(p) ==
  IF p = 1 THEN [type : {INPUT_EV_REL}, code : {INPUT_REL_X, INPUT_REL_Y}, value : {5}]
  ELSE [type : {INPUT_EV_REL}, code : {INPUT_REL_X}, value : {5}]

\* the masks set_active_layers is given: every layer, layer 1, the default layer
\* together with a bit beyond the keymap, and only that bit
LayerMasks == {{}, {1}, {0, 9}, {9}}

\* pointer motion on both instances as the trackpad's temp layer comes and goes
\* and the trackball's layer mask is changed
NextLayerGate ==
  \/ \E p \in Procs : \E ev \in LayerGateEvents(p) : HandleEvent(p, ev, "ok")
  \/ ActivationWork(2)
  \/ DeactivationWork(2)
  \/ \E dt \in TimeSteps : Advance(dt)
  \/ \E layers \in LayerMasks : set_active_layers(1, layers, FALSE)

SpecLayerGate == InitLayerGate /\ [][NextLayerGate]_vars

\* ------------------------------------------------------------------ keybind count

\* the trackball is in keybind mode with as many behaviours as its count of 4;
\* the trackpad has no behaviours and keybind mode off
CountConfig ==
  [p \in Procs |->
     IF p = 1
     THEN [BaseConfig("trackball") EXCEPT
             !.keybind_behaviors = <<"right", "up", "left", "down">>,
             !.initial_keybind_enabled = TRUE]
     ELSE BaseConfig("trackpad")]

InitCount == InitWith(CountConfig)

\* a whole tick of motion in each of the four directions
CountEvents ==
  [type : {INPUT_EV_REL}, code : {INPUT_REL_X, INPUT_REL_Y}, value : {-10, 10}]

\* the counts set_keybind_behavior_count is given: two it must refuse, one below
\* and one above the number of behaviours of the trackball
CountChoices == {0, 2, MAX_KEYBIND_BEHAVIORS, MAX_KEYBIND_BEHAVIORS + 1}

\* pointer motion on both instances while keybind mode and the behaviour count
\* are set, temporarily and persistently, reset and restored
NextCount ==
  \/ \E p \in Procs : \E ev \in CountEvents : HandleEvent(p, ev, "ok")
  \/ \E p \in Procs : \E count \in CountChoices : \E persistent \in BOOLEAN :
        set_keybind_behavior_count(p, count, persistent)
  \/ \E p \in Procs : \E enabled \in BOOLEAN : set_keybind_enabled(p, enabled, FALSE)
  \/ \E p \in Procs : Reset(p)
  \/ \E p \in Procs : RestorePersistent(p)

SpecCount == InitCount /\ [][NextCount]_vars

\* ------------------------------------------------------------------ keybind tick

\* the trackball is in keybind mode with four behaviours; the trackpad is plain
TickConfig ==
  [p \in Procs |->
     IF p = 1
     THEN [BaseConfig("trackball") EXCEPT
             !.keybind_behaviors = <<"right", "up", "left", "down">>,
             !.initial_keybind_enabled = TRUE]
     ELSE BaseConfig("trackpad")]

InitTick == InitWith(TickConfig)

\* fast motion: the largest value an event can carry, on either axis
TickEvents ==
  [type : {INPUT_EV_REL}, code : {INPUT_REL_X, INPUT_REL_Y}, value : {-32767, 32767}]

\* the ticks set_keybind_tick is given: the largest whose square is an int32_t,
\* and the largest there is
TickChoices == {46340, 65535}

\* the distance the accumulators are followed to
MaxAccum == 100000

\* fast motion on the trackball while its tick is changed
NextTick ==
  \/ \E ev \in TickEvents :
        /\ Abs(data[1].keybind_x_accum) + Abs(data[1].keybind_y_accum) <= MaxAccum
        /\ HandleEvent(1, ev, "ok")
  \/ \E tick \in TickChoices : set_keybind_tick(1, tick, FALSE)
  \/ RestorePersistent(1)

SpecTick == InitTick /\ [][NextTick]_vars

\* ------------------------------------------------------------------ snap range

\* fast motion across the snap axis, in both directions, and motion along it
SnapRangeEvents ==
  [type : {INPUT_EV_REL}, code : {INPUT_REL_X}, value : {10}]
  \cup [type : {INPUT_EV_REL}, code : {INPUT_REL_Y}, value : {-32700, -68, 68}]

\* the clock steps of these runs: one decay period and an idle time of minutes
SnapRangeTimeSteps == {DECAY_PERIOD_MS, 400000}

\* the thresholds set_axis_snap_threshold is given: none and the default
SnapRangeThresholds == {0, 100}

\* the timeouts set_axis_snap_timeout is given: less than a decay period, and the default
SnapRangeTimeouts == {30, 1000}

\* pointer motion on the trackball snapped to X, with long pauses, while the snap
\* threshold and timeout are changed
NextSnapRange ==
  \/ \E ev \in SnapRangeEvents : HandleEvent(1, ev, "ok")
  \/ \E dt \in SnapRangeTimeSteps : Advance(dt)
  \/ \E threshold \in SnapRangeThresholds : set_axis_snap_threshold(1, threshold, FALSE)
  \/ \E timeout_ms \in SnapRangeTimeouts : set_axis_snap_timeout(1, timeout_ms, FALSE)

SpecSnapRange == InitSnap /\ [][NextSnapRange]_vars

\* ------------------------------------------------------------------ observer

\* the rotation and the X inversion of the trackball are changed, each for the
\* moment or for good, and put back
NextObserver ==
  \/ \E degrees \in {0, 45}, persistent \in BOOLEAN : set_rotation(1, degrees, persistent)
  \/ \E invert_axis \in BOOLEAN, persistent \in BOOLEAN :
        set_x_invert(1, invert_axis, persistent)
  \/ RestorePersistent(1)
  \/ Reset(1)
  \/ SaveWork(1)
  \/ \E dt \in ApiTimeSteps : Advance(dt)

SpecObserver == InitApi /\ [][NextObserver]_vars

\* ------------------------------------------------------------------ deactivation timer

\* pointer motion on the trackball, key presses, the timers, and the runtime API
\* putting the instance back to its configured or its persistent state
NextTimer ==
  \/ \E ev \in PointerEvents : HandleEvent(1, ev, "ok")
  \/ ActivationWork(1)
  \/ DeactivationWork(1)
  \/ SaveWork(1)
  \/ \E dt \in TimeSteps : Advance(dt)
  \/ \E pressed \in BOOLEAN : KeycodeStateChanged(pressed)
  \/ \E key \in KeyInputs({0, 1}) : PositionStateChanged(key[1], key[2])
  \/ Reset(1)
  \/ RestorePersistent(1)

SpecTimer == InitTempLayer /\ [][NextTimer]_vars

\* ------------------------------------------------------------------ scaling range

\* the factors set_scaling is given here: divisors around the 16-bit range
ScaleRangeChoices == {1, 3} \X {2, 65536, 65537}

\* pointer motion on the trackball while its scaling is changed at run time
NextScaleRange ==
  \/ \E ev \in ScaleEvents(1) : HandleEvent(1, ev, "ok")
  \/ \E f \in ScaleRangeChoices, persistent \in BOOLEAN :
        set_scaling(1, f[1], f[2], persistent)
  \/ RestorePersistent(1)
  \/ SaveWork(1)
  \/ \E dt \in ApiTimeSteps : Advance(dt)

SpecScaleRange == InitScale /\ [][NextScaleRange]_vars


\* ------------------------------------------------------------------ keybind processor

\* motion of a whole tick on either axis and of half a tick on X, a code the
\* processor does not list, and a key event
KeybindProcessorEvents ==
  [type : {INPUT_EV_REL}, code : {INPUT_REL_X, INPUT_REL_Y}, value : {-10, 10}]
  \cup {[type |-> INPUT_EV_REL, code |-> INPUT_REL_X, value |-> 5],
        [type |-> INPUT_EV_REL, code |-> INPUT_REL_MISC, value |-> 10],
        [type |-> INPUT_EV_KEY, code |-> INPUT_REL_X, value |-> 10]}

\* the tap and wait times the settings are given: none, and a time step
KeybindDelays == {0, 100}

\* the outcomes of the press and of the release an event can lead to
InvocationOutcomes(ev) ==
  IF keybind_processor_handle_event(KeybindProcessorConfig, keybind_data, ev, NULL,
                                    now, keymap, TRUE, TRUE, FALSE).kb.fired
  THEN BOOLEAN \X (IF keybind_data.key_pressed THEN BOOLEAN ELSE {TRUE})
  ELSE {<<TRUE, TRUE>>}

NextKeybindProcessor ==
  \/ \E ev \in KeybindProcessorEvents : \E ok \in InvocationOutcomes(ev) :
        KeybindProcessorEvent(ev, ok[1], ok[2])
  \/ \E release_ok \in BOOLEAN : ReleaseWork(release_ok)
  \/ \E dt \in TimeSteps : Advance(dt)
  \/ \E tap_ms \in KeybindDelays : zmk_input_processor_keybind_set_tap_ms(tap_ms)
  \/ \E wait_ms \in KeybindDelays : zmk_input_processor_keybind_set_wait_ms(wait_ms)
  \/ \E layers \in {{}, {1}} : zmk_input_processor_keybind_set_active_layers(layers)

\* the runtime instances stay as they are initialised
InitKeybindProcessor == InitWith([p \in Procs |-> BaseConfig("trackball")])

SpecKeybindProcessor == InitKeybindProcessor /\ [][NextKeybindProcessor]_vars

\* ------------------------------------------------------------------ properties

\* the sequence as a set
Range(f) == { f[i] : i \in 1..Len(f) }

\* the event passes the type, axis-code and layer gates of instance p
PassesGates(p, ev) ==
  /\ ev.type = cfg[p].type
  /\ ev.code \in Range(cfg[p].x_codes) \cup Range(cfg[p].y_codes)
  /\ \/ data[p].active_layers = {}
     \/ \E layer \in data[p].active_layers :
           layer < ZMK_KEYMAP_LAYERS_LEN /\ zmk_keymap_layer_active(layer, keymap)

\* keybind mode is in effect on instance p
KeybindInEffect(p) ==
  /\ data[p].keybind_enabled
  /\ data[p].keybind_behavior_count > 0
  /\ Len(cfg[p].keybind_behaviors) > 0

\* the last operation was an event that keybind mode of its instance had to handle
KeybindHandled ==
  /\ last.op = "handle_event"
  /\ KeybindInEffect(last.p)
  /\ PassesGates(last.p, last.event_in)

\* C1: while keybind mode is in effect, every event that passes the type, axis-code
\* and layer gates returns STOP, whether or not the tick threshold was reached.
C1_KeybindConsumesEveryEvent ==
  KeybindHandled => last.ret = "STOP" /\ last.kb.consumed

\* an event was consumed without reaching the tick threshold
C1_Witness ==
  /\ KeybindHandled
  /\ ~ last.kb.fired
  /\ last.kb.vec = <<5, 10>>
  /\ last.ret = "STOP"

\* the effective count k = min(keybind_count, behaviors.len, 8) of instance p
EffectiveCount(p) ==
  LET k == data[p].keybind_behavior_count
      n == Len(cfg[p].keybind_behaviors)
  IN  IF k <= n /\ k <= 8 THEN k ELSE IF n <= 8 THEN n ELSE 8

\* floor((((theta + offset) mod 360) + 180/k) / (360/k)) mod k, with theta in
\* thousandths of a degree: both terms of the quotient are multiplied by k
DirectionIndex(x, y, offset, k) ==
  IF k = 1 THEN 0
  ELSE ((k * ((Atan2Milli(y, x) + 1000 * offset) % 360000) + 180000) \div 360000) % k

\* the last operation fired a keybind behaviour
Fired == last.op = "handle_event" /\ last.kb.fired

\* a fire of instance p with count 4, offset 0 and tick 10 on the given vector
CardinalFire(vec) ==
  /\ Fired
  /\ EffectiveCount(last.p) = 4
  /\ data[last.p].keybind_degree_offset = 0
  /\ data[last.p].keybind_tick = 10
  /\ last.kb.vec = vec

C3_DiagonalFiresIndexZero ==
  ( /\ Fired
    /\ EffectiveCount(last.p) = 4
    /\ data[last.p].keybind_degree_offset = 45
    /\ last.kb.vec = <<10, 10>> )
  => last.kb.idx = 0

\* C4: after any fire both accumulators are 0 and the event is consumed, also when
\* the behaviour name is not resolved, the press fails or the release fails.
C4_FireResetsAccumulators ==
  Fired =>
    /\ data[last.p].keybind_x_accum = 0
    /\ data[last.p].keybind_y_accum = 0
    /\ last.ret = "STOP"

\* a fire whose press invocation failed, off the axes
C4_Witness ==
  /\ Fired
  /\ last.kb.trigger = "EPRESS"
  /\ last.kb.vec = <<15, 5>>
  /\ data[last.p].keybind_x_accum = 0
  /\ data[last.p].keybind_y_accum = 0

\* C5: once pointer motion has activated the temp layer and no further pointer
\* event arrives while keep_active stays false, the layer is inactive when
\* temp_layer_deactivation_delay_ms has elapsed, for every activating sequence,
\* a single pointer event included.  Stated for the trackball, whose temp layer
\* stays enabled: it is not active once more than the delay has passed since its
\* last pointer event and no work item is waiting to run.
C5_InactiveAfterQuietDelay ==
  ( /\ data[1].temp_layer_enabled
    /\ ~ data[1].temp_layer_keep_active
    /\ now - data[1].last_input_timestamp > data[1].temp_layer_deactivation_delay_ms
    /\ ~ SomeWorkDue )
  => ~ data[1].temp_layer_layer_active

\* C6: while temp_layer_keep_active is true, no operation whatever changes
\* layer_active from true to false.
C6_HeldLayerNeverDrops ==
  [][ \A p \in Procs :
        (data[p].temp_layer_keep_active /\ data[p].temp_layer_layer_active)
        => data'[p].temp_layer_layer_active ]_vars

\* C6 as the code has it: while temp_layer_keep_active is true, neither the
\* deactivation timer callback nor a key press nor any other operation changes
\* layer_active from true to false, except zmk_input_processor_runtime_reset on
\* that instance.
C6_HeldLayerDropsOnlyOnReset ==
  [][ \A p \in Procs :
        ( /\ data[p].temp_layer_keep_active
          /\ data[p].temp_layer_layer_active
          /\ ~ data'[p].temp_layer_layer_active )
        => (last'.op = "reset" /\ last'.p = p) ]_vars

\* the deactivation callback ran on a held layer, which is still active
C6_Witness ==
  /\ last.op = "deactivation_work"
  /\ data[last.p].temp_layer_keep_active
  /\ data[last.p].temp_layer_layer_active
  /\ data[last.p].temp_layer_layer \in keymap

\* C7: whenever temp_layer_keep_active(false) is called while layer_active is true,
\* a deactivation is scheduled for immediate execution, whatever setters were
\* called while keep_active was held.
C7_ReleaseSchedulesDeactivation ==
  ( /\ last.op = "temp_layer_keep_active"
    /\ ~ last.arg[1]
    /\ data[last.p].temp_layer_layer_active )
  => work[last.p].temp_layer_deactivation_work = k_work_reschedule(now, 0)

\* what the claim asks of a pointer event for it to schedule the activation
ActivationDue(p, ev) ==
  /\ PassesGates(p, ev)
  /\ ~ KeybindInEffect(p)
  /\ data[p].temp_layer_enabled
  /\ ev.value # 0
  /\ ~ data[p].temp_layer_layer_active
  /\ \/ data[p].last_keypress_timestamp = 0
     \/ now - data[p].last_keypress_timestamp >= data[p].temp_layer_activation_delay_ms

\* the step is a keycode press
KeycodePressStep == last'.op = "keycode_state_changed" /\ last'.arg[1]

\* C8: a pointer event schedules the temp-layer activation if and only if it passes
\* the gates, is not consumed by keybind mode, the temp layer is enabled, the value
\* is not 0, layer_active is false, and last_keypress_timestamp is 0 or at least
\* temp_layer_activation_delay_ms ago; last_keypress_timestamp of every instance
\* is set to the current time by every key press and by nothing else.
C8_ActivationScheduling ==
  [][ /\ last'.op = "handle_event" =>
           IF ActivationDue(last'.p, last'.event_in)
           THEN /\ last'.act
                /\ work'[last'.p].temp_layer_activation_work = k_work_reschedule(now, 0)
           ELSE /\ ~ last'.act
                /\ work'[last'.p].temp_layer_activation_work =
                     work[last'.p].temp_layer_activation_work
      /\ KeycodePressStep =>
           \A p \in Procs : data'[p].last_keypress_timestamp = now
      /\ ~ KeycodePressStep =>
           \A p \in Procs :
              data'[p].last_keypress_timestamp = data[p].last_keypress_timestamp
    ]_vars

\* an event scheduled the activation exactly when the window after a key press
\* had elapsed
C8_Witness ==
  /\ last.op = "handle_event"
  /\ last.act
  /\ data[last.p].last_keypress_timestamp > 0
  /\ now - data[last.p].last_keypress_timestamp =
       data[last.p].temp_layer_activation_delay_ms
  /\ work[last.p].temp_layer_activation_work = k_work_reschedule(now, 0)

\* C9: on a key press, an instance whose temp layer is enabled, active and not held
\* keeps the layer when the temp layer's own binding is not transparent or the
\* resolved binding is a key press of a keep keycode; in every other case the
\* pending deactivation is cancelled and the layer is deactivated at once.
C9_TearDownDeactivates ==
  \A p \in Procs :
    (last.op = "position_state_changed" /\ last.decision[p] = "deactivate")
    => /\ ~ data[p].temp_layer_layer_active
       /\ work[p].temp_layer_deactivation_work = IdleWork

\* C10: layer_active of every instance is true exactly when the keymap layer
\* numbered temp_layer_layer is active.
C10_FlagTracksKeymap ==
  \A p \in Procs :
    data[p].temp_layer_layer_active <=> (data[p].temp_layer_layer \in keymap)

\* ------------------------------------------------------------------ axis snap properties

\* the last operation was an event of instance p that went through the axis snap
\* stage with a snap mode set and a value to snap
SnapStageEvent(p) ==
  /\ last.op = "handle_event" /\ last.p = p
  /\ last.ret = "CONTINUE" /\ ~ last.gated
  /\ last.event_in.value # 0
  /\ data[p].axis_snap_mode # AXIS_SNAP_MODE_NONE

\* that event was on the axis across the snap axis
CrossAxisEvent(p) ==
  \/ data[p].axis_snap_mode = AXIS_SNAP_MODE_X
       /\ code_idx(last.event_in.code, cfg[p].y_codes) >= 0
       /\ code_idx(last.event_in.code, cfg[p].x_codes) < 0
  \/ data[p].axis_snap_mode = AXIS_SNAP_MODE_Y
       /\ code_idx(last.event_in.code, cfg[p].x_codes) >= 0

RapidY10Step ==
  /\ last'.op = "handle_event" /\ last'.p = 1
  /\ last'.event_in = [type |-> INPUT_EV_REL, code |-> INPUT_REL_Y, value |-> 10]
  /\ data[1].axis_snap_mode = AXIS_SNAP_MODE_X
  /\ data[1].axis_snap_threshold = 100
  /\ data[1].axis_snap_timeout_ms = 1000
  /\ \/ data[1].axis_snap_last_decay_timestamp = 0
     \/ now - data[1].axis_snap_last_decay_timestamp < DECAY_PERIOD_MS

\* the accumulator holds what n rapid (Y, 10) events leave in a cleared one
AfterRapidEvents(n) == data[1].axis_snap_cross_axis_accum = 10 * n

\* C12 as stated: each of the first ten rapid (Y, 10) events fed to a cleared
\* accumulator is emitted as 0, and the eleventh passes through with |accum| = 110
C12_TenEventsLocked ==
  [][RapidY10Step =>
       /\ (\E n \in 0 .. 9 : AfterRapidEvents(n)) => last'.event_out.value = 0
       /\ AfterRapidEvents(10) =>
            /\ last'.event_out.value = 10
            /\ data'[1].axis_snap_cross_axis_accum = 110]_vars

\* C12, amended: each rapid (Y, 10) event adds 10 to the accumulator; the first nine
\* are emitted as 0, and the tenth, which brings |accum| to 100, passes through, as
\* does the eleventh
C12_TenthEventUnlocks ==
  [][RapidY10Step =>
       \A n \in 0 .. 10 :
         AfterRapidEvents(n) =>
           /\ data'[1].axis_snap_cross_axis_accum = 10 * (n + 1)
           /\ last'.event_out.value = IF n + 1 < 10 THEN 0 ELSE 10]_vars

\* the tenth (Y, 10) event since construction has passed through, no time having
\* gone by
C12_Witness ==
  /\ last.op = "handle_event" /\ last.p = 1
  /\ last.event_in = [type |-> INPUT_EV_REL, code |-> INPUT_REL_Y, value |-> 10]
  /\ now = 0
  /\ data[1].axis_snap_mode = AXIS_SNAP_MODE_X
  /\ data[1].axis_snap_cross_axis_accum = 100
  /\ last.event_out.value = 10

\* the step passes a Y event smaller than the threshold through the trackball under
\* SnapX with a timeout set, Y being unlocked and the last snap event at least the
\* timeout and one decay period back
YAfterQuietTimeout ==
  /\ last'.op = "handle_event" /\ last'.p = 1
  /\ last'.ret = "CONTINUE" /\ ~ last'.gated
  /\ last'.event_in.type = INPUT_EV_REL /\ last'.event_in.code = INPUT_REL_Y
  /\ last'.event_in.value # 0
  /\ Abs(last'.event_in.value) < data[1].axis_snap_threshold
  /\ data[1].axis_snap_mode = AXIS_SNAP_MODE_X
  /\ data[1].axis_snap_timeout_ms > 0
  /\ Abs(data[1].axis_snap_cross_axis_accum) >= data[1].axis_snap_threshold
  /\ data[1].axis_snap_last_decay_timestamp > 0
  /\ now - data[1].axis_snap_last_decay_timestamp
       >= data[1].axis_snap_timeout_ms + DECAY_PERIOD_MS

\* C13: under SnapX with a timeout, once Y is unlocked, the cap of twice the
\* threshold included, the first Y event after the timeout and one decay period
\* without snap events is locked again: it is emitted as 0
C13_LockReacquiredAfterTimeout ==
  [][YAfterQuietTimeout => last'.event_out.value = 0]_vars

\* ------------------------------------------------------------------ rotation properties

\* an event of instance p that went through the stages after keybind mode
Transformed(op, p) ==
  /\ op.op = "handle_event" /\ op.p = p
  /\ op.ret = "CONTINUE" /\ ~ op.gated

\* the event of an operation was on an X code of instance p
OnX(op, p) == code_idx(op.event_in.code, cfg[p].x_codes) >= 0

\* the step passes an event through the rotation stage of instance p, which is
\* followed by no inversion, snap or scaling
RotationStep(p) ==
  /\ Transformed(last', p)
  /\ data[p].rotation_degrees # 0
  /\ ~ data[p].x_invert /\ ~ data[p].y_invert
  /\ data[p].axis_snap_mode = AXIS_SNAP_MODE_NONE
  /\ data[p].scale_multiplier = 1 /\ data[p].scale_divisor = 1

\* (last_x * cos - last_y * sin) / 1000 and (last_x * sin + last_y * cos) / 1000 of
\* the instance data d, as int16_t
RotatedX(d) == Int16(TruncDiv(d.last_x * d.cos_val - d.last_y * d.sin_val, 1000))
RotatedY(d) == Int16(TruncDiv(d.last_x * d.sin_val + d.last_y * d.cos_val, 1000))

\* C14: with a rotation set, an X event stores last_x and sets has_x, and emits
\* (last_x*cos - last_y*sin)/1000 and clears has_y if has_y was set, else emits 0; a Y
\* event does the same with (last_x*sin + last_y*cos)/1000 and has_x. So an event
\* that follows one on the other axis emits the rotated value (in an alternating
\* stream only the first event, which finds the flags cleared, is emitted as 0 for
\* want of its pair), and an event that follows one on the same axis emits 0
C14_RotationPairing ==
  [][\A p \in Procs :
       RotationStep(p) =>
         /\ IF OnX(last', p)
            THEN /\ data'[p].last_x = last'.event_in.value
                 /\ data'[p].has_x
                 /\ data'[p].last_y = data[p].last_y
                 /\ ~ data'[p].has_y
                 /\ last'.event_out.value = IF data[p].has_y THEN RotatedX(data'[p]) ELSE 0
            ELSE /\ data'[p].last_y = last'.event_in.value
                 /\ data'[p].has_y
                 /\ data'[p].last_x = data[p].last_x
                 /\ ~ data'[p].has_x
                 /\ last'.event_out.value = IF data[p].has_x THEN RotatedY(data'[p]) ELSE 0
         /\ (Transformed(last, p) /\ OnX(last, p) # OnX(last', p)) =>
              last'.event_out.value =
                IF OnX(last', p) THEN RotatedX(data'[p]) ELSE RotatedY(data'[p])
         /\ (Transformed(last, p) /\ OnX(last, p) = OnX(last', p)) =>
              last'.event_out.value = 0]_vars

\* a Y event completed a pair on the trackpad and was emitted rotated by 30 degrees
C14_Witness ==
  /\ Transformed(last, 2) /\ ~ OnX(last, 2)
  /\ data[2].rotation_degrees = 30
  /\ data[2].last_x = 3 /\ data[2].last_y = -4
  /\ data[2].has_y /\ ~ data[2].has_x
  /\ last.event_out.value = -1

\* the trackpad has emitted the rotation by -theta of a matched pair: its stored
\* pair is the rotation by theta of the pair the trackball stores
RoundTripDone ==
  /\ Transformed(last, 2)
  /\ data[1].last_x # 0 /\ data[1].last_y # 0
  /\ data[2].rotation_degrees = - data[1].rotation_degrees
  /\ data[2].last_x = RotatedX(data[1])
  /\ data[2].last_y = RotatedY(data[1])

\* how far the value emitted by the trackpad is from the one the pointer reported
RoundTripError ==
  IF OnX(last, 2) THEN Abs(last.event_out.value - data[1].last_x)
  ELSE Abs(last.event_out.value - data[1].last_y)

\* both values of the pair the pointer reported are within v
PairWithin(v) == Abs(data[1].last_x) <= v /\ Abs(data[1].last_y) <= v

\* C15 as stated: rotating a matched pair by theta and then by -theta returns the
\* original values within 1 unit if |v| <= 500 and within 2 units if |v| <= 32000
C15_RoundTripWithinQuantum ==
  RoundTripDone =>
    /\ PairWithin(500) => RoundTripError <= 1
    /\ PairWithin(32000) => RoundTripError <= 2

\* C15, amended: rotating a matched pair by theta and then by -theta returns the
\* original values within 3 units if |v| <= 500; the larger pairs reported here,
\* (32000, -474) and (32000, 4), whose rotations fit int16_t, come back up to 72
\* units off
C15_RoundTripWithinThree ==
  RoundTripDone =>
    /\ PairWithin(500) => RoundTripError <= 3
    /\ PairWithin(32000) => RoundTripError <= 72

\* a pair within 500 has come back 3 units off
C15_Witness ==
  /\ RoundTripDone
  /\ PairWithin(500)
  /\ RoundTripError = 3

\* ------------------------------------------------------------------ scaling properties

\* the step passes an event through the scaling stage of instance p, which scales
\* and has no rotation, inversion or snap before it
ScalingStep(p) ==
  /\ Transformed(last', p)
  /\ data[p].scale_multiplier > 0 /\ data[p].scale_divisor > 0
  /\ data[p].rotation_degrees = 0
  /\ ~ data[p].x_invert /\ ~ data[p].y_invert
  /\ data[p].axis_snap_mode = AXIS_SNAP_MODE_NONE

\* value * mul + remainder for the event of the step and the remainder it finds
Scalable(p) ==
  last'.event_in.value * data[p].scale_multiplier + remainder[p]

\* C16: for every 16-bit event value, every remainder and every mul > 0, div > 0 the
\* scaling stage emits out = (value*mul + remainder) / div and leaves the remainder
\* value*mul + remainder - out*div, so that out*div + remainder' = value*mul + remainder
C16_ScalingExact ==
  [][\A p \in Procs :
       ScalingStep(p) =>
         /\ last'.event_out.value = TruncDiv(Scalable(p), data[p].scale_divisor)
         /\ remainder'[p] = Scalable(p) - last'.event_out.value * data[p].scale_divisor
         /\ last'.event_out.value * data[p].scale_divisor + remainder'[p] = Scalable(p)]_vars


\* ------------------------------------------------------------------ runtime API properties

\* the step is a setter call on instance p that returned 0
SetterCallStep(p, persistent) ==
  /\ last'.op \in SetterNames
  /\ last'.p = p
  /\ last'.ret = "OK"
  /\ last'.persistent = persistent

\* argument i of the setter call of the step is one set_scaling skips: a factor
\* of 0, which it neither stores nor refuses
SkippedArgument(i) == last'.op = "set_scaling" /\ last'.arg[i] = 0

\* C17: a setter called with persistent = false changes only the current value
\* of the tunables it names, to the values it is given: every persistent_* field,
\* every other current tunable, the stored settings and every work item,
\* the pending save among them, stay as they were, and no state-changed event
\* is raised.
C17_TemporarySetterFrame ==
  [][SetterCallStep(1, FALSE) =>
       /\ \A f \in Tunables : data'[1][Persistent(f)] = data[1][Persistent(f)]
       /\ \A f \in Tunables \ Written(last'.op) : data'[1][f] = data[1][f]
       /\ \A i \in DOMAIN SetterFields[last'.op] :
            \/ SkippedArgument(i)
            \/ data'[1][SetterFields[last'.op][i]] = last'.arg[i]
       /\ data'[2] = data[2]
       /\ storage' = storage
       /\ work' = work
       /\ ~last'.raised]_vars

\* a temporary rotation of 90 degrees over a persistent rotation of 0, set while
\* a save is pending and an earlier save is in storage
C17_Witness ==
  /\ last.op = "set_rotation" /\ last.ret = "OK" /\ ~last.persistent
  /\ data[1].rotation_degrees = 90
  /\ data[1].persistent_rotation_degrees = 0
  /\ work[1].save_work.pending
  /\ storage[1].saved

\* the stored settings of instance p are its persistent tunables, field by field
StorageMirrorsPersistent(p) ==
  /\ DOMAIN storage[p].settings = Tunables
  /\ \A f \in Tunables : storage[p].settings[f] = data[p][Persistent(f)]

FailsValidation ==
  /\ last'.op \in SetterNames
  /\ \/ last'.p = NULL
     \/ /\ last'.op = "set_keybind_behavior_count"
        /\ last'.arg[1] \notin 1 .. MAX_KEYBIND_BEHAVIORS
     \/ last'.op = "set_keybind_degree_offset" /\ last'.arg[1] >= 360
     \/ last'.op = "set_keybind_tick" /\ last'.arg[1] = 0
     \/ /\ last'.op \in {"set_axis_snap_mode", "set_axis_snap"}
        /\ last'.arg[1] > AXIS_SNAP_MODE_Y

\* C19: a setter call that fails validation returns -EINVAL, and a setter that
\* returns -EINVAL has changed nothing: no current or persistent field and no
\* accumulator of either instance, no work item, nothing in storage, no layer,
\* and it raises no state-changed event.
C19_InvalidArgumentChangesNothing ==
  [][(FailsValidation \/ (last'.op \in SetterNames /\ last'.ret = "EINVAL")) =>
       /\ last'.ret = "EINVAL"
       /\ ~last'.raised
       /\ UNCHANGED <<cfg, data, work, keymap, now, remainder, storage>>]_vars

\* set_axis_snap refused a mode of 3 on the trackball, whose snap mode is
\* temporarily Y over a persistent mode of none, while a save is pending
C19_Witness ==
  /\ last.op = "set_axis_snap" /\ last.p = 1 /\ last.ret = "EINVAL"
  /\ last.arg[1] = AXIS_SNAP_MODE_Y + 1
  /\ data[1].axis_snap_mode = AXIS_SNAP_MODE_Y
  /\ data[1].persistent_axis_snap_mode = AXIS_SNAP_MODE_NONE
  /\ work[1].save_work.pending

\* the step is a set_scaling call with a multiplier or a divisor of 0
ZeroScalingStep ==
  /\ last'.op = "set_scaling"
  /\ last'.p = 1
  /\ last'.arg[1] = 0 \/ last'.arg[2] = 0

\* C20: set_scaling called with a zero multiplier or a zero divisor writes
\* neither scale_multiplier nor scale_divisor, current or persistent, and does
\* not return success.
C20_ZeroScalingRefused ==
  [][ZeroScalingStep =>
       /\ data'[1].scale_multiplier = data[1].scale_multiplier
       /\ data'[1].scale_divisor = data[1].scale_divisor
       /\ data'[1].persistent_scale_multiplier = data[1].persistent_scale_multiplier
       /\ data'[1].persistent_scale_divisor = data[1].persistent_scale_divisor
       /\ last'.ret # "OK"]_vars


\* ------------------------------------------------------------------ restore and reset properties

\* C21: after restore_persistent the current value of every one of the 19
\* tunables is its persistent value, whatever non-persistent setter calls came
\* before.
C21_RestoreLeavesCurrentPersistent ==
  last.op = "restore_persistent" =>
    \A f \in Tunables : data[last.p][f] = data[last.p][Persistent(f)]

\* C22: after reset every tunable is the configured initial value, in the
\* current and in the persistent view, and the save is scheduled a debounce
\* interval ahead.
C22_ResetRestoresConfigDefaults ==
  last.op = "reset" =>
    /\ \A f \in Tunables :
         /\ data[last.p][f] = cfg[last.p][Initial(f)]
         /\ data[last.p][Persistent(f)] = cfg[last.p][Initial(f)]
    /\ work[last.p].save_work = [pending |-> TRUE, at |-> now + SAVE_DEBOUNCE]


\* ------------------------------------------------------------------ settings properties

\* the step is load_processor_settings_cb of the trackball taking a record
AcceptedLoadStep ==
  /\ last'.op = "settings_load"
  /\ last'.arg[1].len = PROCESSOR_SETTINGS_SIZE
  /\ last'.arg[1].read_ok

\* C23: whatever settings S the persistent view holds when the save runs, the
\* record it writes, loaded into a freshly initialised instance, gives current =
\* persistent = S in all 19 fields; every load of a record of the expected size
\* leaves current = persistent = the record, and the rotation factors follow;
\* a record of another size (or one that cannot be read) is refused with
\* -EINVAL and leaves the instance as it was.
C23_SaveLoadRoundTrip ==
  /\ [][last'.op = "save_work" =>
          LET r == load_processor_settings_cb(runtime_processor_init(cfg[1]),
                     StoredRecord(1).len, TRUE, storage'[1].settings)
          IN  /\ r.ret = "OK"
              /\ \A f \in Tunables :
                   /\ r.data[f] = data[1][Persistent(f)]
                   /\ r.data[Persistent(f)] = data[1][Persistent(f)]]_vars
  /\ [][AcceptedLoadStep =>
          /\ last'.ret = "OK"
          /\ \A f \in Tunables :
               /\ data'[1][f] = last'.arg[1].settings[f]
               /\ data'[1][Persistent(f)] = last'.arg[1].settings[f]
          /\ <<data'[1].cos_val, data'[1].sin_val>> =
               update_rotation_values(data'[1].rotation_degrees)]_vars
  /\ [][(last'.op = "settings_load" /\ ~AcceptedLoadStep) =>
          /\ last'.ret = "EINVAL"
          /\ UNCHANGED <<data, work, storage, keymap>>]_vars

\* after a restart (the clock is at 0 again and a save is in storage) the load
\* of the saved record has brought back the scaling of 7/4 in both views
C23_Witness ==
  /\ last.op = "settings_load" /\ last.ret = "OK"
  /\ last.arg[1] = StoredRecord(1)
  /\ now = 0
  /\ storage[1].saved
  /\ data[1].scale_multiplier = 7 /\ data[1].scale_divisor = 4
  /\ data[1].persistent_scale_multiplier = 7 /\ data[1].persistent_scale_divisor = 4


\* ------------------------------------------------------------------ gate properties

\* the step is instance p handling an event of another type than cfg.type, or
\* with a code that is in neither x_codes nor y_codes
UnlistedEventStep(p) ==
  /\ last'.op = "handle_event"
  /\ last'.p = p
  /\ \/ last'.event_in.type # cfg[p].type
     \/ last'.event_in.code \notin Range(cfg[p].x_codes) \cup Range(cfg[p].y_codes)

\* C24: an event whose type is not cfg.type, or whose code is in neither
\* x_codes nor y_codes, is forwarded with CONTINUE and with its type, code and
\* value as they came; no field of either instance changes, no remainder, no
\* layer, nothing in storage, no work item is scheduled and no binding invoked.
C24_UnlistedEventForwardedUntouched ==
  [][\A p \in Procs :
       UnlistedEventStep(p) =>
         /\ last'.ret = "CONTINUE"
         /\ last'.event_out = last'.event_in
         /\ last'.kb.calls = << >>
         /\ ~last'.act /\ ~last'.deact
         /\ UNCHANGED <<data, work, keymap, remainder, storage>>]_vars

\* the trackpad forwarded a key event while its temp layer was enabled and idle
\* with no activation pending: X motion of the same value would have scheduled one
C24_Witness ==
  /\ last.op = "handle_event" /\ last.p = 2
  /\ last.event_in.type = INPUT_EV_KEY
  /\ last.event_in.value # 0
  /\ data[2].temp_layer_enabled
  /\ ~data[2].temp_layer_layer_active
  /\ ~work[2].temp_layer_activation_work.pending
  /\ now > 0


\* the step is the trackball handling an event of its type on one of its codes
ListedEventStep ==
  /\ last'.op = "handle_event"
  /\ last'.p = 1
  /\ last'.event_in.type = cfg[1].type
  /\ last'.event_in.code \in Range(cfg[1].x_codes) \cup Range(cfg[1].y_codes)

\* no bit of the layer mask of instance p is the index of a layer of the keymap
\* that is active now
NoMaskedLayerActive(p) ==
  \A layer \in data[p].active_layers :
    layer >= ZMK_KEYMAP_LAYERS_LEN \/ ~zmk_keymap_layer_active(layer, keymap)

\* C25: with active_layers = 0 a matching event is always processed: here, in
\* keybind mode, consumed with the accumulators moved or a binding fired.  With
\* a mask of which no bit is an active layer of the keymap (bits beyond the
\* keymap length do not count) the event is forwarded with CONTINUE as it came
\* and nothing of the instance changes, the keybind accumulators included.
C25_LayerGate ==
  [][ListedEventStep =>
       /\ data[1].active_layers = {} =>
            /\ ~last'.gated
            /\ last'.ret = "STOP"
            /\ \/ last'.kb.fired
               \/ <<data'[1].keybind_x_accum, data'[1].keybind_y_accum>> #
                    <<data[1].keybind_x_accum, data[1].keybind_y_accum>>
       /\ (data[1].active_layers # {} /\ NoMaskedLayerActive(1)) =>
            /\ last'.ret = "CONTINUE"
            /\ last'.event_out = last'.event_in
            /\ last'.kb.calls = << >>
            /\ UNCHANGED <<data, work, keymap, remainder, storage>>]_vars

\* the trackball forwarded motion while its only layer, layer 1, was off again,
\* keeping the half tick it had accumulated while the layer was on
C25_Witness ==
  /\ last.op = "handle_event" /\ last.p = 1 /\ last.gated
  /\ data[1].active_layers = {1}
  /\ 1 \notin keymap
  /\ data[1].keybind_x_accum = 5


\* ------------------------------------------------------------------ accumulator properties

\* C26: a successful set_axis_snap_mode, set_axis_snap_threshold,
\* set_axis_snap_timeout or set_axis_snap leaves the cross-axis accumulator at
\* 0, and a successful set_keybind_enabled or set_keybind_behavior_count leaves
\* both keybind accumulators at 0.
C26_AccumulatorsResetOnChange ==
  /\ (/\ last.op \in {"set_axis_snap_mode", "set_axis_snap_threshold",
                      "set_axis_snap_timeout", "set_axis_snap"}
      /\ last.ret = "OK")
       => data[last.p].axis_snap_cross_axis_accum = 0
  /\ (/\ last.op \in {"set_keybind_enabled", "set_keybind_behavior_count"}
      /\ last.ret = "OK")
       => (data[last.p].keybind_x_accum = 0 /\ data[last.p].keybind_y_accum = 0)


\* ------------------------------------------------------------------ keybind count properties

\* C27 as stated: whenever keybind is enabled, keybind_behavior_count is within
\* [1, min(8, keybind_behaviors.len)].
C27_CountWithinBehaviors ==
  \A p \in Procs :
    data[p].keybind_enabled =>
      /\ data[p].keybind_behavior_count >= 1
      /\ data[p].keybind_behavior_count <= Min(MAX_KEYBIND_BEHAVIORS,
                                               Len(cfg[p].keybind_behaviors))

\* C27, amended: the stored count, current and persistent, stays within [1, 8],
\* whatever the number of behaviours; the count process_keybind divides the
\* circle by is the stored one clamped to the number of behaviours, so that
\* whenever keybind mode is in effect it is within [1, min(8, behaviors.len)],
\* and every direction fired is the index of a configured behaviour, which is
\* invoked.
C27_CountClampedAtUse ==
  \A p \in Procs :
    /\ data[p].keybind_behavior_count \in 1 .. MAX_KEYBIND_BEHAVIORS
    /\ data[p].persistent_keybind_behavior_count \in 1 .. MAX_KEYBIND_BEHAVIORS
    /\ KeybindInEffect(p) =>
         /\ EffectiveCount(p) >= 1
         /\ EffectiveCount(p) <= Min(MAX_KEYBIND_BEHAVIORS, Len(cfg[p].keybind_behaviors))
    /\ (Fired /\ last.p = p) =>
         /\ last.kb.idx < Min(MAX_KEYBIND_BEHAVIORS, Len(cfg[p].keybind_behaviors))
         /\ last.kb.trigger = "OK"
         /\ Len(last.kb.calls) = 2

\* with a stored count of 8 over four behaviours, motion to the left fired
\* "left", the third of the four
C27_Witness ==
  /\ Fired /\ last.p = 1
  /\ data[1].keybind_enabled
  /\ data[1].keybind_behavior_count = MAX_KEYBIND_BEHAVIORS
  /\ last.kb.vec = <<-10, 0>>
  /\ last.kb.idx = 2


\* ------------------------------------------------------------------ range properties

\* C28: in every reachable state axis_snap_mode is none, X or Y,
\* keybind_degree_offset is at most 359 and keybind_tick is above 0, in the
\* current and in the persistent view of every instance.
C28_TunablesInRange ==
  \A p \in Procs :
    /\ data[p].axis_snap_mode \in
         {AXIS_SNAP_MODE_NONE, AXIS_SNAP_MODE_X, AXIS_SNAP_MODE_Y}
    /\ data[p].persistent_axis_snap_mode \in
         {AXIS_SNAP_MODE_NONE, AXIS_SNAP_MODE_X, AXIS_SNAP_MODE_Y}
    /\ data[p].keybind_degree_offset \in 0 .. 359
    /\ data[p].persistent_keybind_degree_offset \in 0 .. 359
    /\ data[p].keybind_tick > 0
    /\ data[p].persistent_keybind_tick > 0


\* ------------------------------------------------------------------ activation window properties

\* C29: when a key is pressed while the temp-layer activation of an instance is
\* scheduled and has not run yet, the activation callback that runs next does
\* not activate the layer.
C29_KeyPressCancelsActivation ==
  [][\A p \in Procs :
       (/\ last.op = "keycode_state_changed"
        /\ last.arg[1]
        /\ work[p].temp_layer_activation_work.pending
        /\ last'.op = "activation_work"
        /\ last'.p = p)
         => (~data'[p].temp_layer_layer_active /\ keymap' = keymap)]_vars


\* ------------------------------------------------------------------ keybind tick properties

\* v * v for 0 <= v < 65536 as <<high, low>>, high * 65536 + low
WideSquare(v) ==
  LET a == v \div 256
      b == v % 256
      rest == 2 * a * b * 256 + b * b
  IN  <<a * a + rest \div 65536, rest % 65536>>

\* x^2 + y^2 >= tick^2 over the integers, for a tick below 65536
SquaresReach(x, y, tick) ==
  IF Abs(x) > 65535 \/ Abs(y) > 65535 THEN TRUE
  ELSE LET sx == WideSquare(Abs(x))
           sy == WideSquare(Abs(y))
           st == WideSquare(tick)
           low == sx[2] + sy[2]
           high == sx[1] + sy[1] + low \div 65536
       IN  high > st[1] \/ (high = st[1] /\ low % 65536 >= st[2])

\* the step is the trackball handling an event in keybind mode
KeybindEventStep ==
  /\ last'.op = "handle_event"
  /\ last'.p = 1
  /\ last'.kb.consumed

\* C30: a keybind-mode event adds its value to the accumulator of its axis and
\* invokes a binding exactly when the accumulators then satisfy
\* x_accum^2 + y_accum^2 >= tick^2 as integers; below that no binding is invoked
\* and the accumulators keep the sum.
C30_FiresAtTickDistance ==
  [][KeybindEventStep =>
       LET is_x == last'.event_in.code \in Range(cfg[1].x_codes)
           x == data[1].keybind_x_accum + (IF is_x THEN last'.event_in.value ELSE 0)
           y == data[1].keybind_y_accum + (IF is_x THEN 0 ELSE last'.event_in.value)
           tick == data[1].keybind_tick
       IN  /\ last'.kb.fired <=> SquaresReach(x, y, tick)
           /\ ~last'.kb.fired =>
                /\ last'.kb.calls = << >>
                /\ data'[1].keybind_x_accum = x
                /\ data'[1].keybind_y_accum = y]_vars


\* ------------------------------------------------------------------ keybind invocation properties

\* the behaviour a fire selected
SelectedBehavior == cfg[last.p].keybind_behaviors[last.kb.idx + 1]

\* the invocations of a fire are one press of the selected behaviour, followed by
\* its release exactly when the press succeeded
PressThenRelease ==
  /\ Len(last.kb.calls) \in {1, 2}
  /\ last.kb.calls[1][1] = SelectedBehavior
  /\ last.kb.calls[1][2]
  /\ Len(last.kb.calls) = 2 <=> last.kb.calls[1][3]
  /\ Len(last.kb.calls) = 2 =>
       /\ last.kb.calls[2][1] = SelectedBehavior
       /\ ~ last.kb.calls[2][2]

C32_AccumulatorCapped ==
  SnapStageEvent(1) /\ CrossAxisEvent(1) =>
    Abs(data[1].axis_snap_cross_axis_accum) <= 2 * data[1].axis_snap_threshold


\* the accumulator of the trackball as the decay of this step leaves it
DecayedAccum ==
  IF snap_decay_periods(data[1], now) > 0
  THEN snap_decay(data[1].axis_snap_cross_axis_accum, data[1].axis_snap_threshold,
                  data[1].axis_snap_timeout_ms, snap_decay_periods(data[1], now))
  ELSE data[1].axis_snap_cross_axis_accum

\* the step passes a non-zero Y event through the snap stage of the trackball
\* under SnapX
CrossAxisStep ==
  /\ Transformed(last', 1)
  /\ last'.event_in.value # 0
  /\ data[1].axis_snap_mode = AXIS_SNAP_MODE_X
  /\ code_idx(last'.event_in.code, cfg[1].y_codes) >= 0
  /\ code_idx(last'.event_in.code, cfg[1].x_codes) < 0

\* C33: a cross-axis event that finds the accumulator unsnapped (at or beyond the
\* threshold in absolute value) adds |value| to |accum| and keeps the sign of the
\* accumulator: a negative accumulator stays negative.
C33_UnsnappedKeepsSign ==
  [][(CrossAxisStep /\ DecayedAccum < 0
        /\ Abs(DecayedAccum) >= data[1].axis_snap_threshold)
     => data'[1].axis_snap_cross_axis_accum < 0]_vars


\* ------------------------------------------------------------------ observer properties

\* C34: the state-changed event a persistent setter raises carries the name of the
\* instance and, for every tunable, the value that is driving the pipeline, also
\* while another tunable is under a temporary override.
C34_EventCarriesCurrentView ==
  (last.raised /\ last.op \in SetterNames) =>
    /\ last.state_changed.name = cfg[last.p].name
    /\ \A f \in Tunables : last.state_changed.config[f] = data[last.p][f]

\* C34: the state-changed event a persistent setter raises carries the name of the
\* instance and, for every tunable, its persistent value as the setter left it:
\* the value driving the pipeline except for a tunable under a temporary override.
C34_EventCarriesPersistentView ==
  (last.raised /\ last.op \in SetterNames) =>
    /\ last.state_changed.name = cfg[last.p].name
    /\ DOMAIN last.state_changed.config = Tunables
    /\ \A f \in Tunables :
         last.state_changed.config[f] = data[last.p][Persistent(f)]

\* the inversion was set for good while the rotation was under a temporary
\* override: the event carries the new inversion and the persistent rotation
C34_Witness ==
  /\ last.raised /\ last.op = "set_x_invert" /\ last.arg = <<TRUE>>
  /\ last.state_changed.config.x_invert
  /\ data[1].rotation_degrees = 45
  /\ last.state_changed.config.rotation_degrees = 0


\* ------------------------------------------------------------------ deactivation timer properties

\* the step is the deactivation timer of the trackball turning its temp layer off
TimerTurnsLayerOff ==
  /\ last'.op = "deactivation_work" /\ last'.p = 1
  /\ data[1].temp_layer_layer_active
  /\ ~ data'[1].temp_layer_layer_active

\* C35: the deactivation timer turns an active temp layer off only when at least
\* the deactivation delay in force has elapsed since the most recent pointer event
\* that went through the whole pipeline with a non-zero value, whatever the order of
\* pointer events, key presses, reset and restore_persistent.
C35_LayerOffOnlyAfterQuietDelay ==
  [][TimerTurnsLayerOff =>
       now - data[1].last_input_timestamp >= data[1].temp_layer_deactivation_delay_ms]_vars


\* ------------------------------------------------------------------ snap decay properties

\* the step passes a non-zero event to the trackball while a snap mode and a snap
\* timeout are set
SnapActiveStep ==
  /\ last'.op = "handle_event" /\ last'.p = 1
  /\ last'.event_in.value # 0
  /\ data[1].axis_snap_mode # AXIS_SNAP_MODE_NONE
  /\ data[1].axis_snap_timeout_ms > 0

\* C36: for every snap timeout above 0 that the setters accept, 1..49 included, and
\* every threshold, the decay per 50 ms is computed without a division by zero: a
\* snap-active event never faults.
C36_DecayNeverDividesByZero ==
  [][SnapActiveStep => last'.ret # "FAULT"]_vars


\* the step passes a non-zero X event through the snap stage of the trackball under
\* SnapX, after at least one decay period and with a timeout of a decay period or
\* more: the accumulator is decayed and nothing is added to it
DecayOnlyStep ==
  /\ Transformed(last', 1)
  /\ last'.event_in.value # 0
  /\ data[1].axis_snap_mode = AXIS_SNAP_MODE_X
  /\ code_idx(last'.event_in.code, cfg[1].x_codes) >= 0
  /\ data[1].axis_snap_timeout_ms >= DECAY_PERIOD_MS
  /\ snap_decay_periods(data[1], now) > 0

\* what the decay of the step takes off |accum|: max(1, threshold / (timeout / 50))
\* for every period that has elapsed
DecayDue ==
  LET per_50 == data[1].axis_snap_threshold
                  \div (data[1].axis_snap_timeout_ms \div DECAY_PERIOD_MS)
  IN  (IF per_50 < 1 THEN 1 ELSE per_50) * snap_decay_periods(data[1], now)

\* C38: the decay never increases |cross_axis_accum| and never flips its sign,
\* however long the time since the last decay: the accumulator becomes
\* max(0, |accum| - per_50 * periods) with its sign.
C38_DecayTowardsZero ==
  [][DecayOnlyStep =>
       LET accum == data[1].axis_snap_cross_axis_accum
           left == IF Abs(accum) > DecayDue THEN Abs(accum) - DecayDue ELSE 0
       IN  data'[1].axis_snap_cross_axis_accum = IF accum < 0 THEN -left ELSE left]_vars


\* ------------------------------------------------------------------ scaling range properties

\* the step passes an event of the trackball to the scaling stage, which no
\* rotation, inversion or snap precedes, with a multiplier and a divisor above 0
ScalingEnteredStep ==
  /\ last'.op = "handle_event" /\ last'.p = 1
  /\ ~ last'.gated /\ ~ last'.kb.consumed
  /\ data[1].scale_multiplier > 0 /\ data[1].scale_divisor > 0
  /\ data[1].rotation_degrees = 0
  /\ data[1].axis_snap_mode = AXIS_SNAP_MODE_NONE

\* C37: for every multiplier and divisor above 0 that set_scaling accepts, the
\* multiples of 65536 included, the divisor the scaling stage divides by, its 16-bit
\* narrowing, is not 0: the stage is a well-defined division.
C37_ScalingDivisorNotZero ==
  [][ScalingEnteredStep =>
       /\ Int16(data[1].scale_divisor) # 0
       /\ last'.ret = "CONTINUE"]_vars


\* ------------------------------------------------------------------ keybind frame properties

\* the fields of the instance data that keybind mode accumulates in
KeybindAccumulators == {"keybind_x_accum", "keybind_y_accum"}

\* C39: an event consumed by keybind mode changes the keybind accumulators only:
\* the event keeps its code and value, the rotation carry, the snap accumulator and
\* its decay timestamp, the scaling remainder and last_input_timestamp are as
\* before, and no temp-layer activation or deactivation is scheduled or rescheduled.
C39_ConsumedEventTouchesAccumulatorsOnly ==
  [][\A p \in Procs :
       (last'.op = "handle_event" /\ last'.p = p /\ last'.kb.consumed) =>
         /\ last'.event_out = last'.event_in
         /\ \A f \in (DOMAIN data[p]) \ KeybindAccumulators : data'[p][f] = data[p][f]
         /\ remainder' = remainder
         /\ work' = work
         /\ keymap' = keymap
         /\ ~ last'.act /\ ~ last'.deact]_vars

\* the trackpad, its temp layer enabled and not active, consumed a moving event in
\* keybind mode, and no activation is pending
C39_Witness ==
  /\ last.op = "handle_event" /\ last.p = 2 /\ last.kb.consumed
  /\ last.event_in.value # 0
  /\ data[2].temp_layer_enabled /\ ~ data[2].temp_layer_layer_active
  /\ ~ work[2].temp_layer_activation_work.pending
  /\ data[2].last_input_timestamp = 0
  /\ now > 0

\* ------------------------------------------------------------------ held binding properties

\* key_pressed and last_triggered_binding name the one binding that is held, and
\* the release timer runs while it is held
HeldBindingTracked ==
  /\ Len(held_bindings) <= 1
  /\ keybind_data.key_pressed <=> held_bindings # << >>
  /\ keybind_data.key_pressed =>
       /\ held_bindings = <<keybind_data.last_triggered_binding>>
       /\ keybind_data.release_work.pending

\* in this step the standalone processor triggered a binding: the binding
\* invocations are a release of the binding held before, if one was held, and
\* then the press of the new binding; a press that succeeds starts the release
\* timer anew for tap_ms
TriggerReleasesFirst ==
  LET calls == last'.kb.calls
      press == calls[Len(calls)]
  IN  /\ Len(calls) = (IF held_bindings = << >> THEN 1 ELSE 2)
      /\ press[1] = last'.kb.idx /\ press[2]
      /\ held_bindings # << >> =>
           calls[1][1] = held_bindings[1] /\ ~ calls[1][2]
      /\ held_bindings' = (IF press[3] THEN <<press[1]>> ELSE << >>)
      /\ press[3] =>
           keybind_data'.release_work =
             [pending |-> TRUE, at |-> now + keybind_data.tap_ms]

\* in this step the tap_ms timer fired: the binding held is released
TimerReleasesHeld ==
  /\ keybind_data.release_work.at <= now
  /\ held_bindings # << >> =>
       last'.kb.calls = << <<held_bindings[1], FALSE, last'.kb.calls[1][3]>> >>
  /\ held_bindings' = << >>

\* C40: in the standalone keybind processor at most one binding is held at any
\* time and key_pressed is true exactly while a binding is held; a trigger
\* releases the binding held before it presses the new one and restarts the
\* release timer, and a binding that was pressed with success stays held until
\* it is released by the next trigger or by the tap_ms timer.
C40_OneBindingHeld ==
  [][/\ HeldBindingTracked'
     /\ (last'.op = "keybind_processor_event" /\ last'.kb.fired) =>
          TriggerReleasesFirst
     /\ last'.op = "release_work" => TimerReleasesHeld
     /\ held_bindings' # held_bindings =>
          \/ last'.op = "keybind_processor_event" /\ last'.kb.fired
          \/ last'.op = "release_work"]_vars

\* a trigger released the binding that was held and pressed another one, which
\* is now the one held
C40_Witness ==
  /\ last.op = "keybind_processor_event" /\ last.kb.fired
  /\ Len(last.kb.calls) = 2
  /\ ~ last.kb.calls[1][2]
  /\ last.kb.calls[2] = <<last.kb.idx, TRUE, TRUE>>
  /\ last.kb.calls[1][1] # last.kb.idx
  /\ keybind_data.key_pressed
  /\ held_bindings = <<last.kb.idx>>

====
